---- MODULE Spec2Model ----
(***************************************************************************)
(* Event ingestion, incremental synchronisation, analytics and caching     *)
(* engine of the faucet dapp: the localStorage TTL cache (serializers),    *)
(* ContractEventsService (events.ts) and the TBBFaucetContract facade      *)
(* (spare-tomato-pelican.ts).                                              *)
(***************************************************************************)
EXTENDS Integers, Sequences, FiniteSets, TLC

VARIABLES
  now,      \* Date.now(), in milliseconds
  store,    \* localStorage: key -> [data, timestamp, ttl]
  remote,   \* number of records of the indexer's event log
  hist,     \* history: what the operations so far did
  last,     \* the last operation and what it returned (history)
  fnIn,     \* input of the pure function under check
  fnOut     \* its result

vars == <<now, store, remote, hist, last, fnIn, fnOut>>

(***************************************************************************)
(* Bounds of the model.                                                    *)
(***************************************************************************)
StartTime == 1000000
MaxRuns == 2
MaxFine == 1
MaxCoarse == 2

(***************************************************************************)
(* Program constants.                                                      *)
(***************************************************************************)
EVENTS_TTL == 300000
USER_ANALYTICS_TTL == 120000
GLOBAL_ANALYTICS_TTL == 60000
SYNC_STATE_TTL == 600000
BLOCK_HEIGHT_TTL == 60000
BLOCKS_PER_DAY == 17280
MAX_STREAK_GAP == 25920
COOLDOWN_BLOCKS == 17280
PageSize == 50
MaxApiCalls == 20

Networks == {"testnet"}
Users == {"u1", "u2"}

Undefined == [undefined |-> TRUE]
Miss == [hit |-> FALSE]
Hit(v) == [hit |-> TRUE, data |-> v]

SetMax(S) == CHOOSE x \in S : \A y \in S : y <= x
Min(a, b) == IF a <= b THEN a ELSE b
Max(a, b) == IF a >= b THEN a ELSE b
Range(s) == {s[i] : i \in 1..Len(s)}

\* const v = ...; body(v): the value is computed once and then used
With(v, Body(_)) == Body(v)

(***************************************************************************)
(* JSON round trip of the values the services cache.  A Date is written as *)
(* its ISO string; numbers, strings, booleans, arrays and plain objects    *)
(* come back as they were; an undefined property is dropped and reads as   *)
(* undefined.                                                              *)
(***************************************************************************)
DateOf(ms) == [date |-> ms]
DateToJSON(d) == IF "date" \in DOMAIN d THEN [iso |-> d.date] ELSE d
NewDate(v) == IF "iso" \in DOMAIN v THEN [date |-> v.iso] ELSE v

ToJSON(cat, d) ==
  CASE cat = "sync_state" -> [d EXCEPT !.lastSyncTimestamp = DateToJSON(@)]
    [] cat = "user_analytics" ->
         [d EXCEPT !.lastClaimTimestamp = DateToJSON(@),
                   !.nextClaimTime = DateToJSON(@)]
    [] cat = "global_analytics" -> [d EXCEPT !.lastUpdated = DateToJSON(@)]
    [] OTHER -> d

(***************************************************************************)
(* serializers: setCacheEntry / getCacheEntry / removeCacheEntriesByPrefix *)
(* A key is the tuple <<service, network, category, id>>; a prefix is a    *)
(* shorter tuple.                                                          *)
(***************************************************************************)
StartsWith(key, prefix) ==
  /\ Len(prefix) <= Len(key)
  /\ \A i \in 1..Len(prefix) : key[i] = prefix[i]

SetCacheEntry(st, key, data, ttl, t) ==
  [k \in DOMAIN st \cup {key} |->
     IF k = key THEN [data |-> ToJSON(key[3], data), timestamp |-> t, ttl |-> ttl]
     ELSE st[k]]

RemoveItem(st, key) == [k \in DOMAIN st \ {key} |-> st[k]]

Expired_AtTtl(entry, t) == t - entry.timestamp >= entry.ttl
Expired(entry, t) == t - entry.timestamp > entry.ttl

\* [value |-> Hit(data) or Miss, store |-> the store after the read]
GetCacheEntry(st, key, t) ==
  IF key \notin DOMAIN st THEN [value |-> Miss, store |-> st]
  ELSE IF Expired(st[key], t)
       THEN [value |-> Miss, store |-> RemoveItem(st, key)]
       ELSE [value |-> Hit(st[key].data), store |-> st]

RemoveCacheEntriesByPrefix(st, prefix) ==
  [k \in {k \in DOMAIN st : ~StartsWith(k, prefix)} |-> st[k]]

(***************************************************************************)
(* ContractEventsService: cache keys                                       *)
(***************************************************************************)
EventsPrefix_NoNetwork(net) == <<"events-service", "mainnet">>
EventsPrefix(net) == <<"events-service", net>>
EventsKey(net, cat, id) == EventsPrefix(net) \o <<cat, id>>
SyncStateKey(net) == EventsKey(net, "sync_state", "")
ParsedEventsKey(net) == EventsKey(net, "parsed_events", "")

(***************************************************************************)
(* The indexer's event log.  Record i of the log is RawAt(i); the log of a *)
(* behaviour is its first `remote` records.  A record that is not a        *)
(* contract print (a token transfer of the contract) decodes to nothing.   *)
(* Token amounts are counted in millions of base units throughout (the     *)
(* contract pays multiples of 10^6): 50 stands for 50_000_000.             *)
(***************************************************************************)
ClaimRaw(user, amount, streak, total, block, tx) ==
  [event_type |-> "smart_contract_log", tx_id |-> tx,
   value |-> [event |-> "claim", user |-> user, amount |-> amount,
              streak |-> streak, total_claims |-> total, block |-> block]]
DepositRaw(depositor, amount, block, tx) ==
  [event_type |-> "smart_contract_log", tx_id |-> tx,
   value |-> [event |-> "deposit", depositor |-> depositor,
              amount |-> amount, block |-> block]]
MilestoneRaw(user, streak, tier, tx) ==
  [event_type |-> "smart_contract_log", tx_id |-> tx,
   value |-> [event |-> "streak_milestone", user |-> user,
              streak |-> streak, tier |-> tier]]
TransferRaw == [event_type |-> "fungible_token_asset", tx_id |-> "t0"]

RawAt(i) ==
  CASE i = 1 -> ClaimRaw("u1", 75, 4, 4, 60000, "t4")
    [] i = 2 -> MilestoneRaw("u1", 4, 2, "t4")
    [] i = 3 -> DepositRaw("u2", 1000, 100, "t1")
    [] i = 4 -> ClaimRaw("u2", 50, 1, 1, 1000, "t2")
    [] i = 51 -> ClaimRaw("u1", 50, 3, 3, 40000, "t3")
    [] i = 52 -> MilestoneRaw("u2", 1, 1, "t2")
    [] i = 1001 -> DepositRaw("u2", 500, 50, "t5")
    [] OTHER -> TransferRaw

LogLengths == {0, 4, 50, 52, 1001}
Logs == [n \in LogLengths |-> [i \in 1..n |-> RawAt(i)]]
RemoteLog(n) == Logs[n]

(***************************************************************************)
(* fetchRawEvents: one page of the log, or [] when the request fails       *)
(***************************************************************************)
FetchRawEvents(log, limit, offset, ok) ==
  IF ~ok THEN <<>>
  ELSE SubSeq(log, offset + 1, Min(offset + limit, Len(log)))

(***************************************************************************)
(* parseEvent                                                              *)
(***************************************************************************)
Field(v, name, default) == IF name \in DOMAIN v THEN v[name] ELSE default

ParseEvent(raw) ==
  IF raw.event_type # "smart_contract_log" \/ "value" \notin DOMAIN raw
  THEN Miss
  ELSE LET v == raw.value
           eventType == Field(v, "event", "")
       IN CASE eventType = "claim" ->
                 Hit([type |-> "claim", user |-> Field(v, "user", ""),
                      amount |-> Field(v, "amount", 0),
                      streak |-> Field(v, "streak", 0),
                      totalClaims |-> Field(v, "total_claims", 0),
                      block |-> Field(v, "block", 0), txId |-> raw.tx_id])
            [] eventType = "deposit" ->
                 Hit([type |-> "deposit", depositor |-> Field(v, "depositor", ""),
                      amount |-> Field(v, "amount", 0),
                      block |-> Field(v, "block", 0), txId |-> raw.tx_id])
            [] eventType = "streak_milestone" ->
                 Hit([type |-> "streak_milestone", user |-> Field(v, "user", ""),
                      streak |-> Field(v, "streak", 0),
                      tier |-> Field(v, "tier", 0), txId |-> raw.tx_id])
            [] OTHER -> Miss

BlockOf(e) == IF "block" \in DOMAIN e THEN e.block ELSE 0

(***************************************************************************)
(* Sync state                                                              *)
(***************************************************************************)
DefaultSyncState ==
  [lastProcessedBlock |-> 0, lastSyncTimestamp |-> DateOf(0),
   totalEventsParsed |-> 0, lastProcessedTxId |-> "",
   totalAPICallsMade |-> 0, isFullySynced |-> FALSE, lastOffset |-> 0]

\* [value |-> the sync state, store |-> the store after the read]
GetSyncState(st, net, t) ==
  LET r == GetCacheEntry(st, SyncStateKey(net), t)
  IN [value |-> IF r.value.hit
                THEN [r.value.data EXCEPT !.lastSyncTimestamp = NewDate(@)]
                ELSE DefaultSyncState,
      store |-> r.store]

SetSyncState(st, net, state, t) ==
  SetCacheEntry(st, SyncStateKey(net), state, SYNC_STATE_TTL, t)

\* lastOffset: isFullySynced ? 0 : lastOffset
PersistedOffset_Kept(isFullySynced, lastOffset) == lastOffset
PersistedOffset_Reset(isFullySynced, lastOffset) == 0
PersistedOffset(isFullySynced, lastOffset) ==
  IF isFullySynced THEN 0 ELSE lastOffset

UpdateSyncState(st, net, newEvents, apiCallsMade, lastOffset, isFullySynced, t) ==
  LET r == GetSyncState(st, net, t)
      currentState == r.value
      maxBlock == IF Len(newEvents) > 0
                  THEN SetMax({BlockOf(newEvents[i]) : i \in 1..Len(newEvents)})
                  ELSE currentState.lastProcessedBlock
      mostRecentTxId == IF Len(newEvents) > 0 THEN newEvents[1].txId
                        ELSE currentState.lastProcessedTxId
      updatedState ==
        [lastProcessedBlock |-> Max(maxBlock, currentState.lastProcessedBlock),
         lastSyncTimestamp |-> DateOf(t),
         totalEventsParsed |-> currentState.totalEventsParsed + Len(newEvents),
         lastProcessedTxId |-> mostRecentTxId,
         totalAPICallsMade |-> currentState.totalAPICallsMade + apiCallsMade,
         isFullySynced |-> isFullySynced,
         lastOffset |-> PersistedOffset(isFullySynced, lastOffset)]
  IN SetSyncState(r.store, net, updatedState, t)

ShouldContinueSync_NoAge(syncState, t) == ~syncState.isFullySynced
ShouldContinueSync(syncState, t) ==
  LET timeSinceLastSync == t - syncState.lastSyncTimestamp.date
      shouldResync == timeSinceLastSync > EVENTS_TTL
      needsMoreEvents == ~syncState.isFullySynced
  IN shouldResync \/ needsMoreEvents

(***************************************************************************)
(* syncEvents                                                              *)
(***************************************************************************)
IsDuplicate(allEvents, parsed) ==
  \E i \in 1..Len(allEvents) :
    /\ allEvents[i].txId = parsed.txId
    /\ "block" \in DOMAIN allEvents[i]
    /\ "block" \in DOMAIN parsed
    /\ allEvents[i].block = parsed.block

\* the events of one page that are decoded and not already in allEvents
NewParsedEvents(rawEvents, allEvents) ==
  LET parsed == [i \in 1..Len(rawEvents) |-> ParseEvent(rawEvents[i])]
      kept == SelectSeq(parsed, LAMBDA p : p.hit /\ ~IsDuplicate(allEvents, p.data))
  IN [i \in 1..Len(kept) |-> kept[i].data]

\* if (rawEvents.length < 50): the page is the last one of the log
ReachedEnd_Never(rawEvents) == FALSE
ReachedEnd(rawEvents) == Len(rawEvents) < PageSize

\* the pagination loop; failAt = k makes the k-th request of the call fail;
\* requests lists the offsets the loop asked for, in the order of the requests
RECURSIVE SyncLoop(_, _, _, _, _)
SyncLoop(log, allEvents, offset, apiCallsMade, failAt) ==
  LET rawEvents == FetchRawEvents(log, PageSize, offset, apiCallsMade + 1 # failAt)
      calls == apiCallsMade + 1
  IN IF Len(rawEvents) = 0
     THEN [allEvents |-> allEvents, offset |-> offset, apiCallsMade |-> calls,
           isFullySynced |-> TRUE, lastPage |-> 0, requests |-> <<offset>>]
     ELSE LET merged == allEvents \o NewParsedEvents(rawEvents, allEvents)
          IN IF ReachedEnd(rawEvents)
             THEN [allEvents |-> merged, offset |-> offset + PageSize,
                   apiCallsMade |-> calls, isFullySynced |-> TRUE,
                   lastPage |-> Len(rawEvents), requests |-> <<offset>>]
             ELSE IF calls >= MaxApiCalls
             THEN [allEvents |-> merged, offset |-> offset + PageSize,
                   apiCallsMade |-> calls, isFullySynced |-> FALSE,
                   lastPage |-> Len(rawEvents), requests |-> <<offset>>]
             ELSE With(SyncLoop(log, merged, offset + PageSize, calls, failAt),
                       LAMBDA rest : [rest EXCEPT !.requests = <<offset>> \o @])

\* allEvents.sort((a, b) => blockB - blockA): stable, newest block first
RECURSIVE SortByBlockDesc(_, _)
SortByBlockDesc(events, blocks) ==
  IF blocks = {} THEN <<>>
  ELSE LET b == SetMax(blocks)
       IN SelectSeq(events, LAMBDA e : BlockOf(e) = b)
            \o SortByBlockDesc(events, blocks \ {b})

SortEvents_Unsorted(events) == events
SortEvents(events) == SortByBlockDesc(events, {BlockOf(e) : e \in Range(events)})

\* The whole call.  skew is the time that passes between the timestamp of
\* the sync state (new Date() in updateSyncState) and the Date.now() of the
\* later setCacheEntry of parsed_events.
\* [result, store, fetched: requests made, failed: a request failed,
\*  lastPage: the length of the last page read, offset: the offset the
\*  loop ended with, end: the time at which the call returns,
\*  hits: the cache entries the call read its data from,
\*  requests: the offsets requested, merged: the list before the sort]
SyncEvents(st, net, log, forceRefresh, failAt, skew, t) ==
  LET s0 == GetSyncState(st, net, t)
      syncState == s0.value
      c0 == GetCacheEntry(s0.store, ParsedEventsKey(net), t)
  IN IF ~forceRefresh /\ ~ShouldContinueSync(syncState, t) /\ c0.value.hit
     THEN [result |-> c0.value.data, store |-> c0.store, fetched |-> 0,
           failed |-> FALSE, lastPage |-> 0, offset |-> 0, end |-> t,
           hits |-> {SyncStateKey(net), ParsedEventsKey(net)},
           requests |-> <<>>, merged |-> c0.value.data]
     ELSE
       LET s1 == IF ~forceRefresh /\ ~ShouldContinueSync(syncState, t)
                 THEN c0.store ELSE s0.store
           c1 == IF forceRefresh THEN [value |-> Miss, store |-> s1]
                 ELSE GetCacheEntry(s1, ParsedEventsKey(net), t)
           cachedEvents == IF c1.value.hit THEN c1.value.data ELSE <<>>
           offset == IF forceRefresh THEN 0 ELSE syncState.lastOffset
           loop == SyncLoop(log, cachedEvents, offset, 0, failAt)
           allEvents == SortEvents(loop.allEvents)
           s2 == UpdateSyncState(c1.store, net, allEvents, loop.apiCallsMade,
                                 loop.offset, loop.isFullySynced, t)
           s3 == SetCacheEntry(s2, ParsedEventsKey(net), allEvents, EVENTS_TTL,
                               t + skew)
       IN [result |-> allEvents, store |-> s3, fetched |-> loop.apiCallsMade,
           failed |-> failAt \in 1..loop.apiCallsMade,
           lastPage |-> loop.lastPage, offset |-> loop.offset,
           end |-> t + skew,
           hits |-> {k \in {SyncStateKey(net)} : k \in DOMAIN s0.store}
                      \cup {k \in {ParsedEventsKey(net)} : c1.value.hit},
           requests |-> loop.requests, merged |-> loop.allEvents]

(***************************************************************************)
(* invalidateAnalytics, clearCache                                         *)
(***************************************************************************)
InvalidateAnalytics(st, net) ==
  LET a == RemoveCacheEntriesByPrefix(st, EventsPrefix(net) \o <<"user_analytics">>)
      b == RemoveCacheEntriesByPrefix(a, EventsPrefix(net) \o <<"global_analytics">>)
  IN RemoveItem(b, ParsedEventsKey(net))

ClearCache(st, net) == RemoveCacheEntriesByPrefix(st, EventsPrefix(net))

(***************************************************************************)
(* The synchronisation state machine: the clock, syncEvents, and the two   *)
(* cache-clearing entry points of the events service.                      *)
(***************************************************************************)
\* the request of a syncEvents call that fails: none, the first, the second
FailAts == {0, 1, 2}

Idle == [op |-> "none"]
NoStore == [k \in {} |-> 0]
NoRun == [ran |-> FALSE]
NoRuns == [n |-> 0, prev |-> NoRun, cur |-> NoRun, written |-> -1]

Init ==
  /\ now = StartTime
  /\ store = NoStore
  /\ remote \in LogLengths
  /\ hist = NoRuns
  /\ last = Idle
  /\ fnIn = <<>>
  /\ fnOut = <<>>

\* Time passes: one millisecond, or one event-cache TTL.
Fine(t) == (t - StartTime) % EVENTS_TTL
Coarse(t) == (t - StartTime) \div EVENTS_TTL

TickFine ==
  /\ Fine(now) < MaxFine
  /\ now' = now + 1
  /\ last' = Idle
  /\ UNCHANGED <<store, remote, hist, fnIn, fnOut>>

TickCoarse ==
  /\ Coarse(now) < MaxCoarse
  /\ now' = now + EVENTS_TTL
  /\ last' = Idle
  /\ UNCHANGED <<store, remote, hist, fnIn, fnOut>>

SyncStateOf(st, net) ==
  IF SyncStateKey(net) \in DOMAIN st THEN Hit(st[SyncStateKey(net)].data) ELSE Miss

ParsedEventsOf(st, net) ==
  IF ParsedEventsKey(net) \in DOMAIN st THEN st[ParsedEventsKey(net)].data ELSE <<>>

\* what a run did: the requests it made, whether one failed, the length of
\* the last page, the sync state it wrote (if any) and parsed_events after it;
\* state and cached are the unexpired sync_state and parsed_events entries
\* the run found at its start, at time t
RunRecord(net, forceRefresh, r, before, t) ==
  [ran |-> TRUE, forceRefresh |-> forceRefresh, fetched |-> r.fetched,
   failed |-> r.failed, lastPage |-> r.lastPage, offset |-> r.offset,
   hadEvents |-> ParsedEventsKey(net) \in DOMAIN before,
   state |-> GetCacheEntry(before, SyncStateKey(net), t).value,
   cached |-> GetCacheEntry(before, ParsedEventsKey(net), t).value,
   requests |-> r.requests, merged |-> r.merged, result |-> r.result,
   wrote |-> IF r.fetched > 0 THEN SyncStateOf(r.store, net) ELSE Miss,
   events |-> ParsedEventsOf(r.store, net)]

DoSyncEvents(net, forceRefresh, failAt, skew) ==
  /\ hist.n < MaxRuns
  /\ Fine(now) + skew <= MaxFine
  /\ \E r \in {SyncEvents(store, net, RemoteLog(remote), forceRefresh, failAt, skew, now)} :
        /\ store' = r.store
        /\ now' = r.end
        /\ hist' = [n |-> hist.n + 1, prev |-> hist.cur,
                    cur |-> RunRecord(net, forceRefresh, r, store, now),
                    written |-> IF hist.cur.ran /\ hist.cur.wrote.hit
                                THEN Max(hist.written,
                                         hist.cur.wrote.data.lastProcessedBlock)
                                ELSE hist.written]
        /\ last' = [op |-> "syncEvents", result |-> r.result]
  /\ UNCHANGED <<remote, fnIn, fnOut>>

DoInvalidateAnalytics(net) ==
  /\ store' = InvalidateAnalytics(store, net)
  /\ last' = Idle
  /\ UNCHANGED <<now, remote, hist, fnIn, fnOut>>

DoClearCache(net) ==
  /\ store' = ClearCache(store, net)
  /\ last' = Idle
  /\ UNCHANGED <<now, remote, hist, fnIn, fnOut>>

Next ==
  \/ TickFine
  \/ TickCoarse
  \/ \E net \in Networks, forceRefresh \in BOOLEAN, failAt \in FailAts,
        skew \in 0..1 : DoSyncEvents(net, forceRefresh, failAt, skew)
  \/ \E net \in Networks : DoInvalidateAnalytics(net)
  \/ \E net \in Networks : DoClearCache(net)

Spec == Init /\ [][Next]_vars

(***************************************************************************)
(* Claims about syncEvents, checked under Spec.                            *)
(***************************************************************************)
NoDuplicates(events) ==
  \A i, j \in 1..Len(events) : i # j => events[i] # events[j]

\* C1: against a fixed log, a second syncEvents run that follows a run which
\* ended fully synced (no request of either run failed) leaves parsed_events
\* holding exactly the events it held after the first run, none of them
\* more than once.
C1_SecondSyncSameEvents ==
  (/\ hist.prev.ran /\ hist.cur.ran
   /\ ~hist.prev.failed /\ ~hist.cur.failed
   /\ hist.prev.wrote.hit /\ hist.prev.wrote.data.isFullySynced)
  => /\ Range(hist.cur.events) = Range(hist.prev.events)
     /\ NoDuplicates(hist.cur.events)

\* C2: a syncEvents run in which a page request failed does not persist
\* isFullySynced = true and does not reset lastOffset to 0: it keeps the
\* offset of the page it could not read.
C2_FailedFetchNotFullySynced ==
  (hist.cur.ran /\ hist.cur.failed /\ hist.cur.wrote.hit)
  => /\ ~hist.cur.wrote.data.isFullySynced
     /\ hist.cur.wrote.data.lastOffset = hist.cur.offset

\* C3: the lastProcessedBlock written by a syncEvents run is at least the
\* lastProcessedBlock written by every earlier run.
C3_LastProcessedBlockMonotonic ==
  (hist.cur.ran /\ hist.cur.wrote.hit)
  => hist.cur.wrote.data.lastProcessedBlock >= hist.written

\* C4: a run whose last page had fewer than PageSize records persists
\* isFullySynced = true and lastOffset = 0, and every persisted sync state
\* with isFullySynced = true has lastOffset = 0.
C4_ShortPageFullySynced ==
  /\ (hist.cur.ran /\ hist.cur.fetched > 0 /\ hist.cur.lastPage < PageSize)
     => /\ hist.cur.wrote.hit
        /\ hist.cur.wrote.data.isFullySynced
        /\ hist.cur.wrote.data.lastOffset = 0
  /\ \A net \in Networks :
       SyncStateOf(store, net).hit
       => (SyncStateOf(store, net).data.isFullySynced
           => SyncStateOf(store, net).data.lastOffset = 0)

\* a run read a non-empty short page after full pages and persisted its
\* state, and another run stopped at the request cap, not fully synced
C4_Witness ==
  /\ hist.prev.ran /\ hist.prev.fetched = MaxApiCalls
  /\ hist.prev.wrote.hit /\ ~hist.prev.wrote.data.isFullySynced
  /\ hist.prev.wrote.data.lastOffset = MaxApiCalls * PageSize
  /\ hist.cur.ran /\ hist.cur.fetched = 1 /\ hist.cur.lastPage = 1
  /\ hist.cur.wrote.hit /\ hist.cur.wrote.data.isFullySynced

(***************************************************************************)
(* The cache store on its own: setCacheEntry and getCacheEntry called with *)
(* any key, value and TTL while the clock advances.  hist holds what       *)
(* setCacheEntry was given for every key written and not yet found         *)
(* expired by a read.                                                      *)
(***************************************************************************)
MaxCacheTicks == 4
CacheTtls == {1, 3}
CacheKeys == {<<"tbb-faucet-cache", "testnet", "faucet_balance", "">>,
              SyncStateKey("testnet")}
CacheData(key) ==
  IF key[3] = "sync_state"
  THEN {[DefaultSyncState EXCEPT !.lastSyncTimestamp = DateOf(StartTime)]}
  ELSE {0, 8550}

InitCache ==
  /\ now = StartTime
  /\ store = NoStore
  /\ remote = 0
  /\ hist = NoStore
  /\ last = Idle
  /\ fnIn = <<>>
  /\ fnOut = <<>>

CacheTick ==
  /\ now < StartTime + MaxCacheTicks
  /\ now' = now + 1
  /\ last' = Idle
  /\ UNCHANGED <<store, remote, hist, fnIn, fnOut>>

DoSetCacheEntry(key, data, ttl) ==
  /\ store' = SetCacheEntry(store, key, data, ttl, now)
  /\ hist' = [k \in DOMAIN hist \cup {key} |->
                IF k = key THEN [data |-> data, timestamp |-> now, ttl |-> ttl]
                ELSE hist[k]]
  /\ last' = [op |-> "setCacheEntry", key |-> key]
  /\ UNCHANGED <<now, remote, fnIn, fnOut>>

DoGetCacheEntry(key) ==
  /\ LET r == GetCacheEntry(store, key, now)
     IN /\ store' = r.store
        /\ last' = [op |-> "getCacheEntry", key |-> key, at |-> now,
                    entry |-> IF key \in DOMAIN hist THEN Hit(hist[key]) ELSE Miss,
                    result |-> r.value]
  /\ hist' = IF key \in DOMAIN hist /\ now - hist[key].timestamp > hist[key].ttl
             THEN [k \in DOMAIN hist \ {key} |-> hist[k]]
             ELSE hist
  /\ UNCHANGED <<now, remote, fnIn, fnOut>>

NextCache ==
  \/ CacheTick
  \/ \E key \in CacheKeys : \E data \in CacheData(key), ttl \in CacheTtls :
       DoSetCacheEntry(key, data, ttl)
  \/ \E key \in CacheKeys : DoGetCacheEntry(key)

SpecCache == InitCache /\ [][NextCache]_vars

\* C5: a read of an entry written at time t with TTL ttl returns the data
\* (as JSON gives it back) while now - t <= ttl and leaves the entry in the
\* store; it returns null once now - t > ttl and removes the entry; an
\* entry leaves the store in no other way, so never by time passing alone.
C5_TtlHonoured ==
  /\ (last.op = "getCacheEntry" /\ last.entry.hit)
     => LET e == last.entry.data
        IN IF last.at - e.timestamp <= e.ttl
           THEN /\ last.result = Hit(ToJSON(last.key[3], e.data))
                /\ last.key \in DOMAIN store
           ELSE /\ last.result = Miss
                /\ last.key \notin DOMAIN store
  /\ DOMAIN store = DOMAIN hist

\* a read exactly ttl milliseconds after the write returned the data
C5_Witness ==
  /\ last.op = "getCacheEntry" /\ last.entry.hit
  /\ last.at - last.entry.data.timestamp = last.entry.data.ttl
  /\ last.result.hit
  /\ \E k \in DOMAIN store : now - store[k].timestamp > store[k].ttl

(***************************************************************************)
(* calculateStreaks                                                        *)
(***************************************************************************)
ClaimAt(block, amount) ==
  [type |-> "claim", user |-> "u1", amount |-> amount, streak |-> 0,
   totalClaims |-> 0, block |-> block, txId |-> "t"]

SetMin(S) == CHOOSE x \in S : \A y \in S : x <= y

\* [...claims].sort((a, b) => a.block - b.block): stable, oldest block first
RECURSIVE SortByBlockAsc(_, _)
SortByBlockAsc(claims, blocks) ==
  IF blocks = {} THEN <<>>
  ELSE LET b == SetMin(blocks)
       IN SelectSeq(claims, LAMBDA c : c.block = b)
            \o SortByBlockAsc(claims, blocks \ {b})

SortClaims(claims) == SortByBlockAsc(claims, {c.block : c \in Range(claims)})

\* blockGap <= this.STREAK_REQUIREMENTS.MAX_STREAK_GAP
WithinGap_Strict(blockGap) == blockGap < MAX_STREAK_GAP
WithinGap(blockGap) == blockGap <= MAX_STREAK_GAP

\* maxStreak = Math.max(maxStreak, tempStreak) after the forward loop
FinalMaxStreak_Skipped(maxStreak, tempStreak) == maxStreak
FinalMaxStreak(maxStreak, tempStreak) == Max(maxStreak, tempStreak)

\* the forward loop, from index i (1-based) with the counters so far
RECURSIVE MaxStreakLoop(_, _, _, _)
MaxStreakLoop(sortedClaims, i, maxStreak, tempStreak) ==
  IF i > Len(sortedClaims) THEN FinalMaxStreak(maxStreak, tempStreak)
  ELSE LET blockGap == sortedClaims[i].block - sortedClaims[i - 1].block
       IN IF WithinGap(blockGap)
          THEN MaxStreakLoop(sortedClaims, i + 1, maxStreak, tempStreak + 1)
          ELSE MaxStreakLoop(sortedClaims, i + 1, Max(maxStreak, tempStreak), 1)

\* the backward loop, from index i (1-based) down, until the first break
RECURSIVE CurrentStreakLoop(_, _, _)
CurrentStreakLoop(sortedClaims, i, currentStreak) ==
  IF i < 1 THEN currentStreak
  ELSE LET blockGap == sortedClaims[i + 1].block - sortedClaims[i].block
       IN IF WithinGap(blockGap)
          THEN CurrentStreakLoop(sortedClaims, i - 1, currentStreak + 1)
          ELSE currentStreak

CalculateStreaks(claims) ==
  IF Len(claims) = 0 THEN [currentStreak |-> 0, maxStreak |-> 0]
  ELSE LET sortedClaims == SortClaims(claims)
       IN [currentStreak |->
             CurrentStreakLoop(sortedClaims, Len(sortedClaims) - 1, 1),
           maxStreak |-> MaxStreakLoop(sortedClaims, 2, 1, 1)]

(***************************************************************************)
(* calculateStreaks applied to every claim history of at most MaxClaims    *)
(* claims, in every order, at blocks a small gap, exactly the maximum gap  *)
(* and one block more than the maximum gap apart.                          *)
(***************************************************************************)
MaxClaims == 4
StreakBlocks ==
  {0, 1000, 2000, 3000, MAX_STREAK_GAP, MAX_STREAK_GAP + 1,
   2 * MAX_STREAK_GAP + 1}
StreakInputs ==
  UNION {[1..n -> {ClaimAt(b, 50) : b \in StreakBlocks}] : n \in 0..MaxClaims}

NoResult == [op |-> "none"]

InitStreak ==
  /\ now = StartTime
  /\ store = NoStore
  /\ remote = 0
  /\ hist = NoRuns
  /\ last = Idle
  /\ fnIn \in StreakInputs
  /\ fnOut = NoResult

DoCalculateStreaks ==
  /\ fnOut = NoResult
  /\ fnOut' = [op |-> "calculateStreaks", result |-> CalculateStreaks(fnIn)]
  /\ UNCHANGED <<now, store, remote, hist, last, fnIn>>

NextStreak == DoCalculateStreaks

SpecStreak == InitStreak /\ [][NextStreak]_vars

\* C7: for every claim history, in any order, calculateStreaks returns
\* 0 <= currentStreak <= maxStreak.
C7_StreakOrdered ==
  fnOut.op = "calculateStreaks"
  => /\ 0 <= fnOut.result.currentStreak
     /\ fnOut.result.currentStreak <= fnOut.result.maxStreak

\* a history given out of order whose last run is shorter than its longest
C7_Witness ==
  /\ fnOut.op = "calculateStreaks"
  /\ Len(fnIn) = MaxClaims
  /\ fnIn[1].block > fnIn[2].block
  /\ fnOut.result.currentStreak = 1
  /\ fnOut.result.maxStreak = 3

\* the blocks of the claims in ascending order, by counting
RECURSIVE AscBlocks(_, _)
AscBlocks(claims, blocks) ==
  IF blocks = {} THEN <<>>
  ELSE LET b == SetMin(blocks)
           k == Cardinality({i \in 1..Len(claims) : claims[i].block = b})
       IN [i \in 1..k |-> b] \o AscBlocks(claims, blocks \ {b})

\* positions i..j of the ascending blocks s are a run: every gap <= 25920
IsRun(s, i, j) == \A k \in i..(j - 1) : s[k + 1] - s[k] <= 25920

LongestRun(s) ==
  SetMax({n \in 1..Len(s) :
            \E i \in 1..(Len(s) - n + 1) : IsRun(s, i, i + n - 1)})

LastRun(s) ==
  SetMax({Len(s) - i + 1 : i \in {i \in 1..Len(s) : IsRun(s, i, Len(s))}})

\* C8: with the claims sorted by block ascending, maxStreak is the length of
\* the longest run of consecutive claims whose successive gaps are all
\* <= 25920 and currentStreak the length of the run that ends at the most
\* recent claim; no claims give {0,0}, one claim {1,1}, and n claims whose
\* gaps are all <= 25920 give currentStreak = maxStreak = n.
C8_StreaksAreRuns ==
  fnOut.op = "calculateStreaks"
  => LET s == AscBlocks(fnIn, {c.block : c \in Range(fnIn)})
         r == fnOut.result
     IN /\ Len(fnIn) = 0 => r = [currentStreak |-> 0, maxStreak |-> 0]
        /\ Len(fnIn) = 1 => r = [currentStreak |-> 1, maxStreak |-> 1]
        /\ Len(fnIn) > 0 => /\ r.maxStreak = LongestRun(s)
                            /\ r.currentStreak = LastRun(s)
        /\ (Len(fnIn) > 0 /\ IsRun(s, 1, Len(s)))
           => r = [currentStreak |-> Len(fnIn), maxStreak |-> Len(fnIn)]

\* claims at blocks 0, 1000, 2000, 3000 given newest first: streaks 4 and 4;
\* the run holds a gap of exactly 25920 in other histories
C8_Witness ==
  /\ fnOut.op = "calculateStreaks"
  /\ [i \in 1..Len(fnIn) |-> fnIn[i].block] = <<3000, 2000, 1000, 0>>
  /\ fnOut.result = [currentStreak |-> 4, maxStreak |-> 4]

(***************************************************************************)
(* calculateDailyRate.  A rate is kept as the exact quotient num / den.    *)
(***************************************************************************)
FALLBACK_DAILY_RATE == 750

Quotient(num, den) == [num |-> num, den |-> den]

SumAmounts(claims) ==
  LET RECURSIVE Sum(_)
      Sum(i) == IF i = 0 THEN 0 ELSE claims[i].amount + Sum(i - 1)
  IN Sum(Len(claims))

\* c.block >= currentBlock - windowBlocks
InWindow_NewestOnly(block, currentBlock, windowBlocks) ==
  block >= currentBlock
InWindow_Strict(block, currentBlock, windowBlocks) ==
  block > currentBlock - windowBlocks
InWindow(block, currentBlock, windowBlocks) ==
  block >= currentBlock - windowBlocks

\* Math.round(Math.max(1, blockSpan / oneDayBlocks))
RoundedDaySpan(blockSpan) ==
  IF blockSpan <= BLOCKS_PER_DAY THEN 1
  ELSE (2 * blockSpan + BLOCKS_PER_DAY) \div (2 * BLOCKS_PER_DAY)

Fallback ==
  [dailyRate |-> Quotient(FALLBACK_DAILY_RATE, 1), method |-> "fallback",
   confidence |-> "low", periodDays |-> 0]

CalculateDailyRate(claims) ==
  IF Len(claims) = 0 THEN Fallback
  ELSE
    LET sortedClaims == SortClaims(claims)
        currentBlock == SetMax({c.block : c \in Range(claims)})
        sevenDayBlocks == BLOCKS_PER_DAY * 7
        thirtyDayBlocks == BLOCKS_PER_DAY * 30
        recent7DayClaims ==
          SelectSeq(claims, LAMBDA c : InWindow(c.block, currentBlock, sevenDayBlocks))
        recent30DayClaims ==
          SelectSeq(claims, LAMBDA c : InWindow(c.block, currentBlock, thirtyDayBlocks))
    IN IF Len(recent7DayClaims) >= 2
       THEN [dailyRate |-> Quotient(SumAmounts(recent7DayClaims), 7),
             method |-> "recent_7day",
             confidence |-> IF Len(recent7DayClaims) >= 7 THEN "high" ELSE "medium",
             periodDays |-> 7]
       ELSE IF Len(recent30DayClaims) >= 3
       THEN [dailyRate |-> Quotient(SumAmounts(recent30DayClaims), 30),
             method |-> "recent_30day",
             confidence |-> IF Len(recent30DayClaims) >= 15 THEN "medium" ELSE "low",
             periodDays |-> 30]
       ELSE IF Len(sortedClaims) = 1
       THEN [dailyRate |-> Quotient(SumAmounts(claims), 1),
             method |-> "historical", confidence |-> "low", periodDays |-> 1]
       ELSE
         LET oldestBlock == sortedClaims[1].block
             newestBlock == sortedClaims[Len(sortedClaims)].block
             blockSpan == newestBlock - oldestBlock
         IN [dailyRate |->
               IF blockSpan <= BLOCKS_PER_DAY
               THEN Quotient(SumAmounts(claims), 1)
               ELSE Quotient(SumAmounts(claims) * BLOCKS_PER_DAY, blockSpan),
             method |-> "historical",
             confidence |-> IF blockSpan >= 7 * BLOCKS_PER_DAY
                            THEN "medium" ELSE "low",
             periodDays |-> RoundedDaySpan(blockSpan)]

(***************************************************************************)
(* calculateDailyRate applied to the claim lists getGlobalAnalytics can    *)
(* pass: newest block first, up to MaxPerBlock claims at each of the       *)
(* blocks on and just off the edges of the two windows of RateNewest, and  *)
(* at a block more than 30 days later.  A claim at RateNewest pays 75,     *)
(* every other claim 50.                                                   *)
(***************************************************************************)
MaxPerBlock == 7
RateNewest == 600000
RateFar == RateNewest + 30 * BLOCKS_PER_DAY + 1
RateBlocks ==
  <<RateFar, RateNewest, RateNewest - 7 * BLOCKS_PER_DAY,
    RateNewest - 7 * BLOCKS_PER_DAY - 1, RateNewest - 30 * BLOCKS_PER_DAY>>

RateAmount(block) == IF block = RateNewest THEN 75 ELSE 50

\* count[i] claims at block RateBlocks[i], newest block first
RECURSIVE ClaimsOf(_, _)
ClaimsOf(count, i) ==
  IF i > Len(RateBlocks) THEN <<>>
  ELSE [k \in 1..count[i] |-> ClaimAt(RateBlocks[i], RateAmount(RateBlocks[i]))]
         \o ClaimsOf(count, i + 1)

RateInputs ==
  {ClaimsOf(count, 1) : count \in [1..Len(RateBlocks) -> 0..MaxPerBlock]}

CountAt(claims, block) ==
  Cardinality({i \in 1..Len(claims) : claims[i].block = block})

InitRate ==
  /\ now = StartTime
  /\ store = NoStore
  /\ remote = 0
  /\ hist = NoRuns
  /\ last = Idle
  /\ fnIn \in RateInputs
  /\ fnOut = NoResult

DoCalculateDailyRate ==
  /\ fnOut = NoResult
  /\ fnOut' = [op |-> "calculateDailyRate", result |-> CalculateDailyRate(fnIn)]
  /\ UNCHANGED <<now, store, remote, hist, last, fnIn>>

\* A claim at a block at least as recent as the newest claim is indexed: the
\* list grows at its head, and the rate is computed before and after.
DoAddRecentClaim(block) ==
  /\ \A c \in Range(fnIn) : c.block <= block
  /\ CountAt(fnIn, block) < MaxPerBlock
  /\ fnIn' = <<ClaimAt(block, RateAmount(block))>> \o fnIn
  /\ fnOut' = [op |-> "addRecentClaim",
               before |-> CalculateDailyRate(fnIn),
               after |-> CalculateDailyRate(fnIn')]
  /\ UNCHANGED <<now, store, remote, hist, last>>

NextRate ==
  \/ DoCalculateDailyRate
  \/ \E block \in Range(RateBlocks) : DoAddRecentClaim(block)

SpecRate == InitRate /\ [][NextRate]_vars

\* the claims of the list inside the window of windowBlocks blocks that
\* ends at the newest claim
WindowClaims(claims, windowBlocks) ==
  LET newest == SetMax({c.block : c \in Range(claims)})
  IN SelectSeq(claims, LAMBDA c : c.block >= newest - windowBlocks)

\* C9: calculateDailyRate applies the first satisfied rule: at least 2
\* claims in the 7-day window (7 x 17280 blocks): recent_7day, sum of the
\* window / 7, high iff at least 7 claims in it, else medium; otherwise at
\* least 3 claims in the 30-day window: recent_30day, sum / 30, medium iff
\* at least 15 claims, else low; otherwise at least 1 claim: historical;
\* the fallback (750M, low, periodDays 0) iff there are no claims.
C9_FirstSatisfiedRule ==
  fnOut.op = "calculateDailyRate"
  => LET r == fnOut.result
         w7 == WindowClaims(fnIn, 7 * 17280)
         w30 == WindowClaims(fnIn, 30 * 17280)
     IN /\ (r.method = "fallback") <=> (Len(fnIn) = 0)
        /\ (r = Fallback) <=> (Len(fnIn) = 0)
        /\ Len(fnIn) > 0 =>
             IF Len(w7) >= 2
             THEN /\ r.method = "recent_7day"
                  /\ r.dailyRate = Quotient(SumAmounts(w7), 7)
                  /\ r.confidence = IF Len(w7) >= 7 THEN "high" ELSE "medium"
             ELSE IF Len(w30) >= 3
             THEN /\ r.method = "recent_30day"
                  /\ r.dailyRate = Quotient(SumAmounts(w30), 30)
                  /\ r.confidence = IF Len(w30) >= 15 THEN "medium" ELSE "low"
             ELSE r.method = "historical"

\* amounts 50M, 50M, 50M and 75M on the edge of and inside the 7-day window,
\* older claims outside it: 225M / 7, recent_7day, medium
C9_Witness ==
  /\ fnOut.op = "calculateDailyRate"
  /\ CountAt(fnIn, RateNewest) = 1
  /\ CountAt(fnIn, RateNewest - 7 * BLOCKS_PER_DAY) = 3
  /\ CountAt(fnIn, RateNewest - 7 * BLOCKS_PER_DAY - 1) = MaxPerBlock
  /\ CountAt(fnIn, RateFar) = 0
  /\ fnOut.result.method = "recent_7day"
  /\ fnOut.result.dailyRate = Quotient(225, 7)
  /\ fnOut.result.confidence = "medium"

Priority(method) ==
  CASE method = "recent_7day" -> 3
    [] method = "recent_30day" -> 2
    [] method = "historical" -> 1
    [] OTHER -> 0

\* C10: adding claims at least as recent as the newest claim already present
\* never moves the selected method to a lower-priority one in the order
\* recent_7day > recent_30day > historical > fallback.
C10_MethodNeverLowered ==
  fnOut.op = "addRecentClaim"
  => Priority(fnOut.after.method) >= Priority(fnOut.before.method)

(***************************************************************************)
(* validators: isValidStacksAddress.  An address is known by its length,   *)
(* its two-letter prefix and whether the rest is in the base58 alphabet.   *)
(***************************************************************************)
AddressShape(address) ==
  CASE address = "u1" -> [length |-> 41, prefix |-> "ST", base58 |-> TRUE]
    [] address = "u2" -> [length |-> 41, prefix |-> "SP", base58 |-> TRUE]
    [] address = "u3" -> [length |-> 40, prefix |-> "SM", base58 |-> TRUE]
    [] address = "" -> [length |-> 0, prefix |-> "", base58 |-> TRUE]
    [] OTHER -> [length |-> 41, prefix |-> "SX", base58 |-> TRUE]

IsValidStacksAddress(address) ==
  LET a == AddressShape(address)
  IN /\ a.length > 0
     /\ a.length >= 38 /\ a.length <= 42
     /\ a.prefix \in {"SP", "ST", "SM"}
     /\ a.length - 2 >= 36
     /\ a.base58

(***************************************************************************)
(* ContractEventsService: block height, cooldown, analytics.  Every read   *)
(* returns [value, store, hits, fetched]: hits are the cache entries it    *)
(* took data from, fetched the event pages it requested.                   *)
(***************************************************************************)
DEFAULT_BLOCK_HEIGHT == 1000000
BlockHeightKey(net) == EventsKey(net, "current_block_height", "")
UserAnalyticsKey(net, user) == EventsKey(net, "user_analytics", user)
GlobalAnalyticsKey(net) == EventsKey(net, "global_analytics", "")

\* outcome: the height the block endpoint reports, 0 when the request fails
\* or reports no height
GetCurrentBlockHeight_NoEstimate(st, net, outcome, t) ==
  LET c == GetCacheEntry(st, BlockHeightKey(net), t)
  IN IF c.value.hit
     THEN [value |-> c.value.data, store |-> c.store,
           hits |-> {BlockHeightKey(net)}]
     ELSE IF outcome > 0
     THEN [value |-> outcome,
           store |-> SetCacheEntry(c.store, BlockHeightKey(net), outcome,
                                   BLOCK_HEIGHT_TTL, t),
           hits |-> {}]
     ELSE [value |-> DEFAULT_BLOCK_HEIGHT,
           store |-> GetCacheEntry(c.store, ParsedEventsKey(net), t).store,
           hits |-> {}]
GetCurrentBlockHeight(st, net, outcome, t) ==
  LET c == GetCacheEntry(st, BlockHeightKey(net), t)
  IN IF c.value.hit
     THEN [value |-> c.value.data, store |-> c.store,
           hits |-> {BlockHeightKey(net)}]
     ELSE IF outcome > 0
     THEN [value |-> outcome,
           store |-> SetCacheEntry(c.store, BlockHeightKey(net), outcome,
                                   BLOCK_HEIGHT_TTL, t),
           hits |-> {}]
     ELSE LET e == GetCacheEntry(c.store, ParsedEventsKey(net), t)
              latestEventBlock ==
                IF e.value.hit /\ Len(e.value.data) > 0
                THEN SetMax({BlockOf(x) : x \in Range(e.value.data)})
                ELSE 0
          IN IF latestEventBlock > 0
             THEN [value |-> latestEventBlock + 100, store |-> e.store,
                   hits |-> {ParsedEventsKey(net)}]
             ELSE [value |-> DEFAULT_BLOCK_HEIGHT, store |-> e.store,
                   hits |-> {}]

\* [value, store, hits, height: the current block height it was given]
CanUserClaimNow_Strict(st, net, lastClaimBlock, outcome, t) ==
  With(GetCurrentBlockHeight(st, net, outcome, t), LAMBDA h :
    [value |-> h.value - lastClaimBlock > COOLDOWN_BLOCKS, store |-> h.store,
     hits |-> h.hits, height |-> h.value])
CanUserClaimNow(st, net, lastClaimBlock, outcome, t) ==
  With(GetCurrentBlockHeight(st, net, outcome, t), LAMBDA h :
    [value |-> h.value - lastClaimBlock >= COOLDOWN_BLOCKS, store |-> h.store,
     hits |-> h.hits, height |-> h.value])

\* outcomes: what the block endpoint answers to the two height reads
\* [value, store, hits, heights: the current block heights it was given]
CalculateNextClaimTime(st, net, lastClaimBlock, outcomes, t) ==
  With(CanUserClaimNow(st, net, lastClaimBlock, outcomes[1], t), LAMBDA c :
    IF c.value
    THEN [value |-> Undefined, store |-> c.store, hits |-> c.hits,
          heights |-> {c.height}]
    ELSE With(GetCurrentBlockHeight(c.store, net, outcomes[2], t), LAMBDA h :
           LET blocksUntilNextClaim == COOLDOWN_BLOCKS - (h.value - lastClaimBlock)
               secondsUntilNextClaim == blocksUntilNextClaim * 5
           IN [value |-> IF blocksUntilNextClaim <= 0 THEN Undefined
                         ELSE DateOf(t + secondsUntilNextClaim * 1000),
               store |-> h.store, hits |-> c.hits \cup h.hits,
               heights |-> {c.height, h.value}]))

\* cached.x ? new Date(cached.x) : undefined
DateOrUndefined(v) == IF "iso" \in DOMAIN v THEN NewDate(v) ELSE Undefined

\* heights: what the block endpoint answers to the three height reads
\* [value, store, hits, fetched, computed: the analytics were calculated by
\*  this call, heights: the current block heights its height reads returned]
GetUserAnalytics(st, net, userAddress, log, failAt, heights, t) ==
  LET cacheKey == UserAnalyticsKey(net, userAddress)
      cached == GetCacheEntry(st, cacheKey, t)
      cachedEvents == GetCacheEntry(cached.store, ParsedEventsKey(net), t)
      shouldForceRefresh ==
        ~cachedEvents.value.hit \/ Len(cachedEvents.value.data) = 0
  IN IF cached.value.hit
     THEN [value |-> Hit([cached.value.data EXCEPT
                            !.lastClaimTimestamp = DateOrUndefined(@),
                            !.nextClaimTime = DateOrUndefined(@)]),
           store |-> cached.store, hits |-> {cacheKey}, fetched |-> 0,
           computed |-> FALSE, heights |-> {}]
     ELSE
       With(SyncEvents(cachedEvents.store, net, log, shouldForceRefresh,
                       failAt, 0, t), LAMBDA sync :
       With(SortClaims(SelectSeq(sync.result,
              LAMBDA e : e.type = "claim" /\ e.user = userAddress)),
            LAMBDA userClaims :
         IF Len(userClaims) = 0
         THEN [value |-> Miss, store |-> sync.store, hits |-> sync.hits,
               fetched |-> sync.fetched, computed |-> TRUE, heights |-> {}]
         ELSE
           With(CanUserClaimNow(sync.store, net, userClaims[Len(userClaims)].block,
                                heights[1], t), LAMBDA can :
           With(CalculateNextClaimTime(can.store, net,
                                       userClaims[Len(userClaims)].block,
                                       <<heights[2], heights[3]>>, t), LAMBDA next :
             LET lastClaim == userClaims[Len(userClaims)]
                 streaks == CalculateStreaks(userClaims)
                 userMilestones ==
                   SelectSeq(sync.result, LAMBDA e :
                     e.type = "streak_milestone" /\ e.user = userAddress)
                 userAnalytics ==
                   [address |-> userAddress,
                    totalClaims |-> Len(userClaims),
                    totalClaimed |-> SumAmounts(userClaims),
                    currentStreak |-> streaks.currentStreak,
                    maxStreak |-> streaks.maxStreak,
                    lastClaimBlock |-> lastClaim.block,
                    lastClaimTimestamp |-> Undefined,
                    canClaimNow |-> can.value,
                    nextClaimTime |-> next.value,
                    streakMilestones |-> userMilestones,
                    claimHistory |-> userClaims]
             IN [value |-> Hit(userAnalytics),
                 store |-> SetCacheEntry(next.store, cacheKey, userAnalytics,
                                         USER_ANALYTICS_TTL, t),
                 hits |-> sync.hits \cup can.hits \cup next.hits,
                 fetched |-> sync.fetched, computed |-> TRUE,
                 heights |-> {can.height} \cup next.heights]))))

\* streaks.reduce((a, b) => a + b, 0)
SumStreaks(claims) ==
  LET RECURSIVE Sum(_)
      Sum(i) == IF i = 0 THEN 0 ELSE claims[i].streak + Sum(i - 1)
  IN Sum(Len(claims))

\* the analytics computed from the synced events (events.ts:646-693)
GlobalAnalyticsOf(events, t) ==
  With(SelectSeq(events, LAMBDA e : e.type = "claim"), LAMBDA claims :
  With(SelectSeq(events, LAMBDA e : e.type = "deposit"), LAMBDA deposits :
  With(CalculateDailyRate(claims), LAMBDA dailyRateCalculation :
    LET streaks == {c.streak : c \in Range(claims)}
        currentBlock == SetMax({c.block : c \in Range(claims)} \cup {0})
        oneDayAgo == currentBlock - BLOCKS_PER_DAY
        oneWeekAgo == currentBlock - BLOCKS_PER_DAY * 7
    IN [totalUsers |-> Cardinality({c.user : c \in Range(claims)} \cup
                                   {d.depositor : d \in Range(deposits)}),
        totalClaims |-> Len(claims),
        totalClaimed |-> SumAmounts(claims),
        totalDeposited |-> SumAmounts(deposits),
        averageStreak |-> IF Len(claims) > 0
                          THEN Quotient(SumStreaks(claims), Len(claims))
                          ELSE Quotient(0, 1),
        longestStreak |-> SetMax(streaks \cup {0}),
        dailyClaimCount |->
          Len(SelectSeq(claims, LAMBDA c : c.block >= oneDayAgo)),
        weeklyClaimCount |->
          Len(SelectSeq(claims, LAMBDA c : c.block >= oneWeekAgo)),
        calculatedDailyRate |-> dailyRateCalculation.dailyRate,
        dailyRateMethod |-> dailyRateCalculation.method,
        dataConfidence |-> dailyRateCalculation.confidence,
        ratePeriodDays |-> dailyRateCalculation.periodDays,
        lastUpdated |-> DateOf(t)])))

GetGlobalAnalytics(st, net, log, failAt, t) ==
  LET cacheKey == GlobalAnalyticsKey(net)
      cached == GetCacheEntry(st, cacheKey, t)
  IN IF cached.value.hit
     THEN [value |-> cached.value.data, store |-> cached.store,
           hits |-> {cacheKey}, fetched |-> 0]
     ELSE
       With(SyncEvents(cached.store, net, log, FALSE, failAt, 0, t), LAMBDA sync :
       With(GlobalAnalyticsOf(sync.result, t), LAMBDA globalAnalytics :
         [value |-> globalAnalytics,
          store |-> SetCacheEntry(sync.store, cacheKey, globalAnalytics,
                                  GLOBAL_ANALYTICS_TTL, t),
          hits |-> sync.hits, fetched |-> sync.fetched]))

(***************************************************************************)
(* TBBFaucetContract, the facade                                           *)
(***************************************************************************)
GLOBAL_STATS_TTL == 30000
USER_CLAIM_INFO_TTL == 60000
TOTAL_SUPPLY == 10000

FacadePrefix(net) == <<"tbb-faucet-cache", net>>
FacadeKey(net, cat, id) == FacadePrefix(net) \o <<cat, id>>
ClaimInfoKey(net, user) == FacadeKey(net, "claim_info", user)
GlobalStatsKey(net) == FacadeKey(net, "global_stats", "")
FaucetBalanceKey(net) == FacadeKey(net, "faucet_balance", "")

\* balance: what the token contract's get-balance answers, -1 when the
\* read-only call fails
GetFaucetBalance(st, net, balance, t) ==
  LET cached == GetCacheEntry(st, FaucetBalanceKey(net), t)
  IN IF cached.value.hit
     THEN [value |-> cached.value.data, store |-> cached.store,
           hits |-> {FaucetBalanceKey(net)}]
     ELSE IF balance >= 0
     THEN [value |-> balance,
           store |-> SetCacheEntry(cached.store, FaucetBalanceKey(net), balance,
                                   GLOBAL_STATS_TTL, t),
           hits |-> {}]
     ELSE [value |-> 0, store |-> cached.store, hits |-> {}]

GetTotalSupply == TOTAL_SUPPLY

DefaultClaimInfo_OnCooldown ==
  [lastClaimBlock |-> 0, streakCount |-> 0, totalClaims |-> 0,
   totalClaimed |-> 0, canClaimNow |-> FALSE, nextClaimBlock |-> 0,
   timeUntilNextClaim |-> 0]
DefaultClaimInfo ==
  [lastClaimBlock |-> 0, streakCount |-> 0, totalClaims |-> 0,
   totalClaimed |-> 0, canClaimNow |-> TRUE, nextClaimBlock |-> 0,
   timeUntilNextClaim |-> 0]

\* [threw, value, store, hits, fetched, analytics: what getUserAnalytics
\*  returned to this call, if it was called]
NoAnalytics == [called |-> FALSE]

GetClaimInfo(st, net, userAddress, log, failAt, heights, t) ==
  IF ~IsValidStacksAddress(userAddress)
  THEN [threw |-> TRUE, value |-> Undefined, store |-> st, hits |-> {},
        fetched |-> 0, analytics |-> NoAnalytics]
  ELSE
    LET cacheKey == ClaimInfoKey(net, userAddress)
        cached == GetCacheEntry(st, cacheKey, t)
    IN IF cached.value.hit
       THEN [threw |-> FALSE, value |-> cached.value.data,
             store |-> cached.store, hits |-> {cacheKey}, fetched |-> 0,
             analytics |-> NoAnalytics]
       ELSE
         With(GetUserAnalytics(cached.store, net, userAddress, log, failAt,
                               heights, t), LAMBDA ua :
           LET userAnalytics == ua.value.data
               claimInfo ==
                 IF ua.value.hit
                 THEN [lastClaimBlock |-> userAnalytics.lastClaimBlock,
                       streakCount |-> userAnalytics.currentStreak,
                       totalClaims |-> userAnalytics.totalClaims,
                       totalClaimed |-> userAnalytics.totalClaimed,
                       canClaimNow |-> userAnalytics.canClaimNow,
                       nextClaimBlock |->
                         IF userAnalytics.canClaimNow
                         THEN userAnalytics.lastClaimBlock
                         ELSE userAnalytics.lastClaimBlock + BLOCKS_PER_DAY,
                       timeUntilNextClaim |->
                         IF "date" \in DOMAIN userAnalytics.nextClaimTime
                         THEN Max(0, (userAnalytics.nextClaimTime.date - t) \div 1000)
                         ELSE 0]
                 ELSE DefaultClaimInfo
           IN [threw |-> FALSE, value |-> claimInfo,
               store |-> SetCacheEntry(ua.store, cacheKey, claimInfo,
                                       USER_CLAIM_INFO_TTL, t),
               hits |-> ua.hits, fetched |-> ua.fetched,
               analytics |-> [called |-> TRUE, value |-> ua.value,
                              computed |-> ua.computed, heights |-> ua.heights]])

\* [threw, value, store]
CanClaim(st, net, userAddress, log, failAt, heights, t) ==
  With(GetClaimInfo(st, net, userAddress, log, failAt, heights, t), LAMBDA claimInfo :
    [threw |-> claimInfo.threw,
     value |-> IF claimInfo.threw THEN Undefined ELSE claimInfo.value.canClaimNow,
     store |-> claimInfo.store])

GetTimeUntilNextClaim(st, net, userAddress, log, failAt, heights, t) ==
  With(GetClaimInfo(st, net, userAddress, log, failAt, heights, t), LAMBDA claimInfo :
    [threw |-> claimInfo.threw,
     value |-> IF claimInfo.threw THEN Undefined
               ELSE Max(0, claimInfo.value.timeUntilNextClaim),
     store |-> claimInfo.store])

GetGlobalStats(st, net, log, balance, failAt, t) ==
  LET cacheKey == GlobalStatsKey(net)
      cached == GetCacheEntry(st, cacheKey, t)
  IN IF cached.value.hit
     THEN [value |-> cached.value.data, store |-> cached.store,
           hits |-> {cacheKey}, fetched |-> 0]
     ELSE
       With(GetFaucetBalance(cached.store, net, balance, t), LAMBDA fb :
       With(GetGlobalAnalytics(fb.store, net, log, failAt, t), LAMBDA ga :
         LET faucetBalance == fb.value
             totalSupply == GetTotalSupply
             dailyRate == ga.value.calculatedDailyRate
             globalStats ==
               [totalSupply |-> totalSupply,
                distributed |-> totalSupply - faucetBalance,
                remaining |-> faucetBalance,
                dailyRate |-> dailyRate,
                estimatedDaysRemaining |->
                  IF dailyRate.num > 0
                  THEN Quotient(faucetBalance * dailyRate.den, dailyRate.num)
                  ELSE Quotient(0, 1),
                percentageRemaining |->
                  IF totalSupply > 0
                  THEN Quotient(faucetBalance * 100, totalSupply)
                  ELSE Quotient(0, 1)]
         IN [value |-> globalStats,
             store |-> SetCacheEntry(ga.store, cacheKey, globalStats,
                                     GLOBAL_STATS_TTL, t),
             hits |-> fb.hits \cup ga.hits, fetched |-> ga.fetched]))

GetCurrentReward(streakCount) ==
  IF streakCount >= 15 THEN 125
  ELSE IF streakCount >= 8 THEN 100
  ELSE IF streakCount >= 4 THEN 75
  ELSE 50

ValidateAddress(address) ==
  IF address = "" THEN [isValid |-> FALSE, error |-> "Address is required"]
  ELSE IF ~IsValidStacksAddress(address)
  THEN [isValid |-> FALSE, error |-> "Invalid Stacks address format"]
  ELSE [isValid |-> TRUE]

Failure(error) == [txId |-> "", success |-> FALSE, error |-> error]
Success(txId) == [txId |-> txId, success |-> TRUE]

\* localStorage.removeItem of the entries a claim makes stale
RemoveAfterClaim_KeepClaimInfo(st, net, userAddress) ==
  RemoveItem(RemoveItem(st, GlobalStatsKey(net)), FaucetBalanceKey(net))
RemoveAfterClaim(st, net, userAddress) ==
  RemoveItem(RemoveItem(RemoveItem(st, ClaimInfoKey(net, userAddress)),
                        GlobalStatsKey(net)),
             FaucetBalanceKey(net))

\* walletOk: the wallet request resolves (the user signs)
\* [result, store, hits, fetched, reward: the amount of the post-condition]
ClaimTokens(st, net, userAddress, walletOk, log, failAt, heights, t) ==
  LET validation == ValidateAddress(userAddress)
  IN IF ~validation.isValid
     THEN [result |-> Failure(validation.error), store |-> st, hits |-> {},
           fetched |-> 0, reward |-> 0]
     ELSE
       With(GetClaimInfo(st, net, userAddress, log, failAt, heights, t),
            LAMBDA canClaim :
         IF ~canClaim.value.canClaimNow
         THEN [result |-> Failure("Cannot claim yet - still on cooldown"),
               store |-> canClaim.store, hits |-> canClaim.hits,
               fetched |-> canClaim.fetched, reward |-> 0]
         ELSE
           With(GetClaimInfo(canClaim.store, net, userAddress, log, failAt,
                             heights, t), LAMBDA claimInfo :
             LET currentReward == GetCurrentReward(claimInfo.value.streakCount)
                 hits == canClaim.hits \cup claimInfo.hits
                 fetched == canClaim.fetched + claimInfo.fetched
             IN IF ~walletOk
                THEN [result |-> Failure("Claim failed"),
                      store |-> claimInfo.store, hits |-> hits,
                      fetched |-> fetched, reward |-> currentReward]
                ELSE [result |-> Success("tx"),
                      store |-> InvalidateAnalytics(
                                  RemoveAfterClaim(claimInfo.store, net, userAddress),
                                  net),
                      hits |-> hits, fetched |-> fetched,
                      reward |-> currentReward]))

DepositTokens(st, net, senderAddress, amount, walletOk) ==
  LET validation == ValidateAddress(senderAddress)
  IN IF ~validation.isValid
     THEN [result |-> Failure(validation.error), store |-> st]
     ELSE IF amount <= 0
     THEN [result |-> Failure("Deposit amount must be greater than 0"),
           store |-> st]
     ELSE IF ~walletOk
     THEN [result |-> Failure("Deposit failed"), store |-> st]
     ELSE [result |-> Success("tx"),
           store |-> InvalidateAnalytics(
                       RemoveItem(RemoveItem(st, GlobalStatsKey(net)),
                                  FaucetBalanceKey(net)),
                       net)]

(***************************************************************************)
(* The facade state machine: reads (getClaimInfo, getGlobalStats) and      *)
(* writes (claimTokens, depositTokens) while the clock advances.  The      *)
(* transaction of a write is not yet indexed: the log stays as it is.      *)
(* hist holds, for the last successful write, the keys it removed and the  *)
(* entries cached before it that are still in the store (stale), and for   *)
(* every user the same for the user's last successful claim (staleFor).    *)
(***************************************************************************)
MaxWrites == 1
MaxFacadeTicks == 1
FacadeStep == 30001
ChainHeight == 80000
Balance == 8550

\* what the block endpoint answers to the three height reads of a call
HeightReads ==
  {<<0, 0, 0>>, <<ChainHeight, ChainHeight, ChainHeight>>,
   <<0, ChainHeight, ChainHeight>>}
BalanceOutcomes == {-1, Balance}
FacadeAddresses == {"u1", "bad"}

NoWrites ==
  [writes |-> 0, removed |-> {}, stale |-> {}, staleFor |-> [u \in Users |-> {}]]

InitFacade ==
  /\ now = StartTime
  /\ store = NoStore
  /\ remote \in LogLengths
  /\ hist = NoWrites
  /\ last = Idle
  /\ fnIn = <<>>
  /\ fnOut = <<>>

\* the keys of new that an operation wrote
Rewritten(old, new) ==
  {k \in DOMAIN new : k \notin DOMAIN old \/ new[k] # old[k]}

\* what is left of a set of stale keys after an operation
Aged(keys, old, new) == (keys \cap DOMAIN new) \ Rewritten(old, new)

AgedHist(old, new) ==
  [hist EXCEPT !.stale = Aged(@, old, new),
               !.staleFor = [u \in Users |-> Aged(@[u], old, new)]]

FacadeTick ==
  /\ now < StartTime + MaxFacadeTicks * FacadeStep
  /\ now' = now + FacadeStep
  /\ last' = Idle
  /\ UNCHANGED <<store, remote, hist, fnIn, fnOut>>

DoGetClaimInfo(net, userAddress, failAt, heights) ==
  /\ \E r \in {GetClaimInfo(store, net, userAddress, RemoteLog(remote), failAt,
                            heights, now)} :
        /\ store' = r.store
        /\ hist' = AgedHist(store, r.store)
        /\ last' = [op |-> "getClaimInfo", net |-> net, user |-> userAddress,
                    threw |-> r.threw, value |-> r.value,
                    fetched |-> r.fetched, analytics |-> r.analytics,
                    changed |-> r.store # store,
                    staleHits |-> IF userAddress \in Users
                                  THEN r.hits \cap hist.staleFor[userAddress]
                                  ELSE {}]
  /\ UNCHANGED <<now, remote, fnIn, fnOut>>

DoGetGlobalStats(net, balance, failAt) ==
  /\ \E r \in {GetGlobalStats(store, net, RemoteLog(remote), balance, failAt, now)} :
        /\ store' = r.store
        /\ hist' = AgedHist(store, r.store)
        /\ last' = [op |-> "getGlobalStats", net |-> net, value |-> r.value,
                    fetched |-> r.fetched,
                    staleHits |-> r.hits \cap hist.stale]
  /\ UNCHANGED <<now, remote, fnIn, fnOut>>

DoClaimTokens(net, userAddress, walletOk, failAt, heights) ==
  /\ hist.writes < MaxWrites
  /\ \E r \in {ClaimTokens(store, net, userAddress, walletOk, RemoteLog(remote),
                           failAt, heights, now)} :
        /\ store' = r.store
        /\ hist' = IF r.result.success
                   THEN [writes |-> hist.writes + 1,
                         removed |-> DOMAIN store \ DOMAIN r.store,
                         stale |-> DOMAIN r.store,
                         staleFor |-> [u \in Users |->
                                         IF u = userAddress THEN DOMAIN r.store
                                         ELSE Aged(hist.staleFor[u], store, r.store)]]
                   ELSE AgedHist(store, r.store)
        /\ last' = [op |-> "claimTokens", net |-> net, user |-> userAddress,
                    result |-> r.result, reward |-> r.reward]
  /\ UNCHANGED <<now, remote, fnIn, fnOut>>

DoDepositTokens(net, senderAddress, amount, walletOk) ==
  /\ hist.writes < MaxWrites
  /\ \E r \in {DepositTokens(store, net, senderAddress, amount, walletOk)} :
        /\ store' = r.store
        /\ hist' = IF r.result.success
                   THEN [writes |-> hist.writes + 1,
                         removed |-> DOMAIN store \ DOMAIN r.store,
                         stale |-> DOMAIN r.store,
                         staleFor |-> [u \in Users |->
                                         Aged(hist.staleFor[u], store, r.store)]]
                   ELSE AgedHist(store, r.store)
        /\ last' = [op |-> "depositTokens", net |-> net, user |-> senderAddress,
                    result |-> r.result]
  /\ UNCHANGED <<now, remote, fnIn, fnOut>>

NextFacade ==
  \/ FacadeTick
  \/ \E net \in Networks, userAddress \in FacadeAddresses, failAt \in {0, 1},
        heights \in HeightReads :
       DoGetClaimInfo(net, userAddress, failAt, heights)
  \/ \E net \in Networks, balance \in BalanceOutcomes, failAt \in {0, 1} :
       DoGetGlobalStats(net, balance, failAt)
  \/ \E net \in Networks, userAddress \in FacadeAddresses, walletOk \in BOOLEAN,
        failAt \in {0, 1}, heights \in HeightReads :
       DoClaimTokens(net, userAddress, walletOk, failAt, heights)
  \/ \E net \in Networks, senderAddress \in FacadeAddresses, amount \in {0, 100},
        walletOk \in BOOLEAN :
       DoDepositTokens(net, senderAddress, amount, walletOk)

SpecFacade == InitFacade /\ [][NextFacade]_vars

\* the entries a write makes stale: the facade's global_stats and
\* faucet_balance, the events service's user_analytics:*, global_analytics
\* and parsed_events
MadeStaleByWrite(key) ==
  \/ key[1] = "tbb-faucet-cache" /\ key[3] \in {"global_stats", "faucet_balance"}
  \/ key[1] = "events-service"
     /\ key[3] \in {"user_analytics", "global_analytics", "parsed_events"}

MaxAnalyticsTicks == 1
AnalyticsStep == 60001
MaxRequests == 2
LastClaimed == RawAt(4).value.block
CooldownEnd == LastClaimed + COOLDOWN_BLOCKS

\* what the block endpoint answers to the three height reads of a call:
\* 0 is a failed request
AnalyticsHeights ==
  {<<0, 0, 0>>, <<LastClaimed, LastClaimed, LastClaimed>>,
   <<CooldownEnd, CooldownEnd, CooldownEnd>>,
   <<0, LastClaimed, LastClaimed>>}
\* u2 claimed last at block LastClaimed, u3 never claimed
AnalyticsAddresses == {"u2", "u3", "bad"}
AnalyticsLogs == {0, 4, 52}

InitAnalytics ==
  /\ now = StartTime
  /\ store = NoStore
  /\ remote \in AnalyticsLogs
  /\ hist = NoWrites
  /\ last = Idle
  /\ fnIn = <<>>
  /\ fnOut = <<>>

AnalyticsTick ==
  /\ now < StartTime + MaxAnalyticsTicks * AnalyticsStep
  /\ now' = now + AnalyticsStep
  /\ last' = Idle
  /\ UNCHANGED <<store, remote, hist, fnIn, fnOut>>

\* the calls that may read events are taken while the sync state counts
\* fewer than MaxRequests requests (totalAPICallsMade grows with every run)
RequestsLeft(net) ==
  SyncStateOf(store, net).hit
    => SyncStateOf(store, net).data.totalAPICallsMade < MaxRequests

\* the data of an unexpired entry of the store, if there is one
Unexpired(st, key, t) == GetCacheEntry(st, key, t).value

DoGetCurrentBlockHeight(net, outcome) ==
  /\ \E r \in {GetCurrentBlockHeight(store, net, outcome, now)} :
        /\ store' = r.store
        /\ last' = [op |-> "getCurrentBlockHeight", net |-> net,
                    outcome |-> outcome, value |-> r.value,
                    cached |-> Unexpired(store, BlockHeightKey(net), now),
                    events |-> Unexpired(store, ParsedEventsKey(net), now)]
  /\ UNCHANGED <<now, remote, hist, fnIn, fnOut>>

DoSyncEventsRead(net, forceRefresh, failAt) ==
  /\ RequestsLeft(net)
  /\ \E r \in {SyncEvents(store, net, RemoteLog(remote), forceRefresh, failAt, 0, now)} :
        /\ store' = r.store
        /\ last' = [op |-> "syncEvents", net |-> net,
                    forceRefresh |-> forceRefresh, result |-> r.result,
                    failed |-> r.failed, fetched |-> r.fetched,
                    events |-> Unexpired(store, ParsedEventsKey(net), now)]
  /\ UNCHANGED <<now, remote, hist, fnIn, fnOut>>

DoGetUserAnalytics(net, userAddress, failAt, heights) ==
  /\ RequestsLeft(net)
  /\ \E r \in {GetUserAnalytics(store, net, userAddress, RemoteLog(remote),
                                failAt, heights, now)} :
        /\ store' = r.store
        /\ last' = [op |-> "getUserAnalytics", net |-> net,
                    user |-> userAddress, value |-> r.value,
                    fetched |-> r.fetched, computed |-> r.computed,
                    heights |-> r.heights, failAt |-> failAt,
                    threw |-> FALSE, changed |-> r.store # store,
                    cached |-> Unexpired(store, UserAnalyticsKey(net, userAddress), now),
                    events |-> Unexpired(store, ParsedEventsKey(net), now)]
  /\ UNCHANGED <<now, remote, hist, fnIn, fnOut>>

DoGetGlobalAnalytics(net, failAt) ==
  /\ RequestsLeft(net)
  /\ \E r \in {GetGlobalAnalytics(store, net, RemoteLog(remote), failAt, now)} :
        /\ store' = r.store
        /\ last' = [op |-> "getGlobalAnalytics", net |-> net, value |-> r.value,
                    fetched |-> r.fetched, failAt |-> failAt,
                    cached |-> Unexpired(store, GlobalAnalyticsKey(net), now),
                    events |-> Unexpired(store, ParsedEventsKey(net), now)]
  /\ UNCHANGED <<now, remote, hist, fnIn, fnOut>>

NextAnalytics ==
  \/ AnalyticsTick
  \/ \E net \in Networks, outcome \in {0, LastClaimed, CooldownEnd} :
       DoGetCurrentBlockHeight(net, outcome)
  \/ \E net \in Networks, forceRefresh \in BOOLEAN, failAt \in {0, 1} :
       DoSyncEventsRead(net, forceRefresh, failAt)
  \/ \E net \in Networks, userAddress \in AnalyticsAddresses, failAt \in {0, 1},
        heights \in AnalyticsHeights :
       DoGetUserAnalytics(net, userAddress, failAt, heights)
  \/ \E net \in Networks, failAt \in {0, 1} : DoGetGlobalAnalytics(net, failAt)
  \/ \E net \in Networks, userAddress \in AnalyticsAddresses, failAt \in {0, 1},
        heights \in AnalyticsHeights :
       RequestsLeft(net) /\ DoGetClaimInfo(net, userAddress, failAt, heights)

SpecAnalytics == InitAnalytics /\ [][NextAnalytics]_vars

\* the cooldown rule for analytics calculated with current block height H
CooldownRule(a, H, t) ==
  /\ a.canClaimNow = (H - a.lastClaimBlock >= 17280)
  /\ ~a.canClaimNow
     => a.nextClaimTime =
          DateOf(t + (17280 - (H - a.lastClaimBlock)) * 5 * 1000)

HasClaim(log, user) ==
  \E i \in 1..Len(log) :
    /\ log[i].event_type = "smart_contract_log"
    /\ log[i].value.event = "claim"
    /\ log[i].value.user = user

\* C12: for a user with no claim event in the log, getUserAnalytics returns
\* null, getClaimInfo reports canClaimNow = true with lastClaimBlock,
\* streakCount, totalClaims, totalClaimed and timeUntilNextClaim all 0, and
\* canClaim is true.
C12_NoClaimsAbsent ==
  /\ (last.op = "getUserAnalytics" /\ ~HasClaim(RemoteLog(remote), last.user))
     => last.value = Miss
  /\ (last.op = "getClaimInfo" /\ ~last.threw
        /\ ~HasClaim(RemoteLog(remote), last.user))
     => /\ last.value.canClaimNow
        /\ last.value.lastClaimBlock = 0
        /\ last.value.streakCount = 0
        /\ last.value.totalClaims = 0
        /\ last.value.totalClaimed = 0
        /\ last.value.timeUntilNextClaim = 0
        /\ \A failAt \in {0, 1}, heights \in AnalyticsHeights :
             CanClaim(store, last.net, last.user, RemoteLog(remote), failAt,
                      heights, now).value = TRUE

\* the log holds claims of other users, the events were fetched, and the
\* user without claims is told to claim
C12_Witness ==
  /\ last.op = "getClaimInfo" /\ ~last.threw
  /\ HasClaim(RemoteLog(remote), "u2") /\ ~HasClaim(RemoteLog(remote), last.user)
  /\ last.analytics.called /\ last.analytics.value = Miss
  /\ last.fetched > 0
  /\ last.value.canClaimNow

\* the highest block among cached events, 0 when there is none
HighestCachedBlock(events) ==
  IF events.hit
  THEN SetMax({BlockOf(events.data[i]) : i \in 1..Len(events.data)} \cup {0})
  ELSE 0

\* C13: without an unexpired cached height, getCurrentBlockHeight returns the
\* height the block endpoint reports whenever the request succeeds; only if
\* it fails, the highest block among the cached parsed events + 100; and
\* only if no cached event has a positive block, the default 1000000.
C13_HeightFallbackChain ==
  (last.op = "getCurrentBlockHeight" /\ ~last.cached.hit)
  => /\ last.outcome > 0 => last.value = last.outcome
     /\ (last.outcome = 0 /\ HighestCachedBlock(last.events) > 0)
        => last.value = HighestCachedBlock(last.events) + 100
     /\ (last.outcome = 0 /\ HighestCachedBlock(last.events) = 0)
        => last.value = 1000000

\* the request failed and the height was estimated from the cached events
C13_Witness ==
  /\ last.op = "getCurrentBlockHeight" /\ ~last.cached.hit
  /\ last.outcome = 0
  /\ last.events.hit /\ HighestCachedBlock(last.events) = 60000
  /\ last.value = 60100

\* every event of the cached list is in the result
ContainsCached(result, events) ==
  events.hit => \A i \in 1..Len(events.data) : events.data[i] \in Range(result)

\* the analytics of no events at all
EmptyGlobalAnalytics(a) ==
  /\ a.totalUsers = 0 /\ a.totalClaims = 0 /\ a.totalClaimed = 0
  /\ a.totalDeposited = 0 /\ a.calculatedDailyRate = Quotient(750, 1)
  /\ a.dailyRateMethod = "fallback"

\* C14: when a request to the events endpoint or the block endpoint fails,
\* syncEvents, getUserAnalytics, getGlobalAnalytics and
\* getCurrentBlockHeight return the cached data when it is present and
\* otherwise an empty, absent or fallback result.
C14_FailureDegradesToCache ==
  /\ (last.op = "syncEvents" /\ last.failed)
     => /\ ContainsCached(last.result, last.events)
        /\ ~last.events.hit => last.result = <<>>
  /\ (last.op = "getUserAnalytics" /\ last.failAt = 1)
     => /\ last.cached.hit => last.value.hit
        /\ (~last.cached.hit /\ ~last.events.hit) => last.value = Miss
  /\ (last.op = "getGlobalAnalytics" /\ last.failAt = 1)
     => /\ last.cached.hit => last.value = last.cached.data
        /\ (~last.cached.hit /\ ~last.events.hit)
           => EmptyGlobalAnalytics(last.value)
  /\ (last.op = "getCurrentBlockHeight" /\ last.outcome = 0)
     => /\ last.cached.hit => last.value = last.cached.data
        /\ ~last.cached.hit
           => last.value \in {HighestCachedBlock(last.events) + 100, 1000000}

\* C16: for a malformed user identifier getClaimInfo, canClaim,
\* getTimeUntilNextClaim and getUserAnalytics throw before any cache read,
\* cache write or network call, and leave the cache unchanged.
C16_MalformedRejected ==
  /\ (last.op \in {"getClaimInfo", "getUserAnalytics"}
        /\ ~IsValidStacksAddress(last.user))
     => last.threw /\ last.fetched = 0 /\ ~last.changed
  /\ \A userAddress \in {a \in AnalyticsAddresses : ~IsValidStacksAddress(a)},
        net \in Networks, failAt \in {0, 1}, heights \in AnalyticsHeights :
       /\ CanClaim(store, net, userAddress, RemoteLog(remote), failAt, heights,
                   now) = [threw |-> TRUE, value |-> Undefined, store |-> store]
       /\ GetTimeUntilNextClaim(store, net, userAddress, RemoteLog(remote),
                                failAt, heights, now)
            = [threw |-> TRUE, value |-> Undefined, store |-> store]

(***************************************************************************)
(* The store may be unavailable: every localStorage access then throws.    *)
(* setCacheEntry, getCacheEntry and removeCacheEntriesByPrefix catch the   *)
(* exception, so through them an unavailable store is read as empty and    *)
(* is left as it is; a direct localStorage.removeItem throws to its        *)
(* caller.  up: the store is available.                                    *)
(***************************************************************************)
CacheView(st, up) == IF up THEN st ELSE NoStore
CacheKeep(st, new, up) == IF up THEN new ELSE st

\* [threw, store]
LocalStorageRemoveItem(st, key, up) ==
  IF up THEN [threw |-> FALSE, store |-> RemoveItem(st, key)]
  ELSE [threw |-> TRUE, store |-> st]

InvalidateAnalyticsOn(st, net, up) ==
  LET a == CacheKeep(st, RemoveCacheEntriesByPrefix(
                           st, EventsPrefix(net) \o <<"user_analytics">>), up)
      b == CacheKeep(a, RemoveCacheEntriesByPrefix(
                          a, EventsPrefix(net) \o <<"global_analytics">>), up)
  IN LocalStorageRemoveItem(b, ParsedEventsKey(net), up)

ClearUserData(st, net, userAddress, up) ==
  LET r == LocalStorageRemoveItem(st, ClaimInfoKey(net, userAddress), up)
  IN IF r.threw THEN r ELSE InvalidateAnalyticsOn(r.store, net, up)

RefreshAnalytics(st, net, up) ==
  LET r == LocalStorageRemoveItem(st, GlobalStatsKey(net), up)
  IN IF r.threw THEN r
     ELSE InvalidateAnalyticsOn(
            CacheKeep(r.store,
                      RemoveCacheEntriesByPrefix(
                        r.store, FacadePrefix(net) \o <<"claim_info">>), up),
            net, up)

\* [threw, value, store]
GetClaimInfoOn(st, net, userAddress, log, failAt, heights, t, up) ==
  With(GetClaimInfo(CacheView(st, up), net, userAddress, log, failAt, heights, t),
       LAMBDA r : [threw |-> r.threw, value |-> r.value,
                   store |-> CacheKeep(st, r.store, up)])

\* [result, store, submitted: the wallet request resolved]
ClaimTokensOn(st, net, userAddress, walletOk, log, failAt, heights, t, up) ==
  With(ClaimTokens(CacheView(st, up), net, userAddress, walletOk, log, failAt,
                   heights, t), LAMBDA r :
    IF up
    THEN [result |-> r.result, store |-> r.store, submitted |-> r.result.success]
    ELSE IF r.result.success
    THEN [result |-> Failure("Claim failed"), store |-> st, submitted |-> TRUE]
    ELSE [result |-> r.result, store |-> st, submitted |-> FALSE])

DepositTokensOn(st, net, senderAddress, amount, walletOk, up) ==
  With(DepositTokens(CacheView(st, up), net, senderAddress, amount, walletOk),
       LAMBDA r :
    IF up
    THEN [result |-> r.result, store |-> r.store, submitted |-> r.result.success]
    ELSE IF r.result.success
    THEN [result |-> Failure("Deposit failed"), store |-> st, submitted |-> TRUE]
    ELSE [result |-> r.result, store |-> st, submitted |-> FALSE])

(***************************************************************************)
(* The outage state machine: the facade's reads, writes and cache hooks    *)
(* while the store goes down and comes back.  hist.up: the store is        *)
(* available.                                                              *)
(***************************************************************************)
OutageAddresses == {"u2", "u3"}

InitOutage ==
  /\ now = StartTime
  /\ store = NoStore
  /\ remote \in AnalyticsLogs
  /\ hist = [up |-> TRUE]
  /\ last = Idle
  /\ fnIn = <<>>
  /\ fnOut = <<>>

StoreGoesDown ==
  /\ hist.up
  /\ hist' = [up |-> FALSE]
  /\ last' = Idle
  /\ UNCHANGED <<now, store, remote, fnIn, fnOut>>

StoreComesBack ==
  /\ ~hist.up
  /\ hist' = [up |-> TRUE]
  /\ last' = Idle
  /\ UNCHANGED <<now, store, remote, fnIn, fnOut>>

DoGetClaimInfoOn(net, userAddress, failAt, heights) ==
  /\ RequestsLeft(net)
  /\ \E r \in {GetClaimInfoOn(store, net, userAddress, RemoteLog(remote), failAt,
                              heights, now, hist.up)} :
        /\ store' = r.store
        /\ last' = [op |-> "getClaimInfo", net |-> net, up |-> hist.up, threw |-> r.threw,
                    value |-> r.value]
  /\ UNCHANGED <<now, remote, hist, fnIn, fnOut>>

DoClaimTokensOn(net, userAddress, walletOk, failAt, heights) ==
  /\ RequestsLeft(net)
  /\ \E r \in {ClaimTokensOn(store, net, userAddress, walletOk, RemoteLog(remote),
                             failAt, heights, now, hist.up)} :
        /\ store' = r.store
        /\ last' = [op |-> "claimTokens", net |-> net, up |-> hist.up,
                    threw |-> FALSE,
                    submitted |-> r.submitted, result |-> r.result]
  /\ UNCHANGED <<now, remote, hist, fnIn, fnOut>>

DoDepositTokensOn(net, senderAddress, amount, walletOk) ==
  /\ \E r \in {DepositTokensOn(store, net, senderAddress, amount, walletOk, hist.up)} :
        /\ store' = r.store
        /\ last' = [op |-> "depositTokens", net |-> net, up |-> hist.up,
                    threw |-> FALSE,
                    submitted |-> r.submitted, result |-> r.result]
  /\ UNCHANGED <<now, remote, hist, fnIn, fnOut>>

DoInvalidateAnalyticsOn(net) ==
  /\ \E r \in {InvalidateAnalyticsOn(store, net, hist.up)} :
        /\ store' = r.store
        /\ last' = [op |-> "invalidateAnalytics", net |-> net, up |-> hist.up,
                    threw |-> r.threw]
  /\ UNCHANGED <<now, remote, hist, fnIn, fnOut>>

DoClearUserData(net, userAddress) ==
  /\ \E r \in {ClearUserData(store, net, userAddress, hist.up)} :
        /\ store' = r.store
        /\ last' = [op |-> "clearUserData", net |-> net, up |-> hist.up,
                    threw |-> r.threw]
  /\ UNCHANGED <<now, remote, hist, fnIn, fnOut>>

DoRefreshAnalytics(net) ==
  /\ \E r \in {RefreshAnalytics(store, net, hist.up)} :
        /\ store' = r.store
        /\ last' = [op |-> "refreshAnalytics", net |-> net, up |-> hist.up,
                    threw |-> r.threw]
  /\ UNCHANGED <<now, remote, hist, fnIn, fnOut>>

NextOutage ==
  \/ StoreGoesDown
  \/ StoreComesBack
  \/ \E net \in Networks, userAddress \in OutageAddresses, failAt \in {0, 1},
        heights \in AnalyticsHeights :
       DoGetClaimInfoOn(net, userAddress, failAt, heights)
  \/ \E net \in Networks, userAddress \in OutageAddresses, walletOk \in BOOLEAN,
        failAt \in {0, 1}, heights \in AnalyticsHeights :
       DoClaimTokensOn(net, userAddress, walletOk, failAt, heights)
  \/ \E net \in Networks, senderAddress \in OutageAddresses, amount \in {0, 100},
        walletOk \in BOOLEAN :
       DoDepositTokensOn(net, senderAddress, amount, walletOk)
  \/ \E net \in Networks : DoInvalidateAnalyticsOn(net)
  \/ \E net \in Networks, userAddress \in OutageAddresses :
       DoClearUserData(net, userAddress)
  \/ \E net \in Networks : DoRefreshAnalytics(net)

SpecOutage == InitOutage /\ [][NextOutage]_vars

\* C15: while the store is unavailable no operation of the events service
\* or the facade fails or reports failure because of it: invalidateAnalytics,
\* clearUserData and refreshAnalytics return normally, and claimTokens and
\* depositTokens report success when the wallet accepted the transaction.
C15_OutageIsSilent ==
  (last.op # "none" /\ ~last.up)
  => /\ last.op \in {"invalidateAnalytics", "clearUserData", "refreshAnalytics"}
        => ~last.threw
     /\ (last.op \in {"claimTokens", "depositTokens"} /\ last.submitted)
        => last.result.success

(***************************************************************************)
(* Two networks over one localStorage: the mainnet and the testnet         *)
(* instances of the events service and of the facade.                      *)
(***************************************************************************)
BothNetworks == {"mainnet", "testnet"}
SignedHeights == <<CooldownEnd, CooldownEnd, CooldownEnd>>

InitNetworks ==
  /\ now = StartTime
  /\ store = NoStore
  /\ remote = 4
  /\ hist = [up |-> TRUE]
  /\ last = Idle
  /\ fnIn = <<>>
  /\ fnOut = <<>>

DoClearCacheOn(net) ==
  /\ store' = CacheKeep(store, ClearCache(store, net), hist.up)
  /\ last' = [op |-> "clearCache", net |-> net, up |-> hist.up, threw |-> FALSE]
  /\ UNCHANGED <<now, remote, hist, fnIn, fnOut>>

NextNetworks ==
  \/ \E net \in BothNetworks, forceRefresh \in BOOLEAN :
       DoSyncEventsRead(net, forceRefresh, 0)
  \/ \E net \in BothNetworks : DoGetUserAnalytics(net, "u2", 0, SignedHeights)
  \/ \E net \in BothNetworks : DoGetGlobalAnalytics(net, 0)
  \/ \E net \in BothNetworks : DoGetCurrentBlockHeight(net, CooldownEnd)
  \/ \E net \in BothNetworks : DoInvalidateAnalyticsOn(net)
  \/ \E net \in BothNetworks : DoClearCacheOn(net)
  \/ \E net \in BothNetworks : DoGetClaimInfoOn(net, "u2", 0, SignedHeights)
  \/ \E net \in BothNetworks : DoClaimTokensOn(net, "u2", TRUE, 0, SignedHeights)
  \/ \E net \in BothNetworks : DoRefreshAnalytics(net)

SpecNetworks == InitNetworks /\ [][NextNetworks]_vars

\* the entries of every other network are the same before and after a step
OtherNetworksUnchanged(net) ==
  \A key \in DOMAIN store \cup DOMAIN store' :
    key[2] # net
    => key \in DOMAIN store /\ key \in DOMAIN store' /\ store'[key] = store[key]

\* C17: no operation on the events service or facade instance of one
\* network writes or removes a cache entry of the other network: across
\* every operation on the mainnet instance the testnet-prefixed entries are
\* unchanged, and vice versa.
C17_NetworkIsolation ==
  [][last'.op # "none" => OtherNetworksUnchanged(last'.net)]_vars

\* a claim on mainnet went through while testnet's events, analytics and
\* claim info were cached
C17_Witness ==
  /\ last.op = "claimTokens" /\ last.net = "mainnet" /\ last.result.success
  /\ {ParsedEventsKey("testnet"), UserAnalyticsKey("testnet", "u2"),
      GlobalAnalyticsKey("testnet"), ClaimInfoKey("testnet", "u2")}
       \subseteq DOMAIN store
  /\ \A key \in DOMAIN store : key[2] = "testnet"

(***************************************************************************)
(* Reward tiers: getCurrentReward, getNextRewardAmount, getTierIndex.      *)
(* Amounts in millions of base units.                                      *)
(***************************************************************************)
REWARD_TIERS ==
  <<[days |-> "1-3", amount |-> 50], [days |-> "4-7", amount |-> 75],
    [days |-> "8-14", amount |-> 100], [days |-> "15+", amount |-> 125]>>

GetNextRewardAmount(streakCount) == GetCurrentReward(streakCount + 1)

GetTierIndex_Late(streakCount) ==
  IF streakCount > 15 THEN 3
  ELSE IF streakCount > 8 THEN 2
  ELSE IF streakCount > 4 THEN 1
  ELSE 0
GetTierIndex(streakCount) ==
  IF streakCount >= 15 THEN 3
  ELSE IF streakCount >= 8 THEN 2
  ELSE IF streakCount >= 4 THEN 1
  ELSE 0

MaxStreakCount == 40

InitReward ==
  /\ now = StartTime
  /\ store = NoStore
  /\ remote = 0
  /\ hist = NoRuns
  /\ last = Idle
  /\ fnIn \in 0..MaxStreakCount
  /\ fnOut = NoResult

DoGetCurrentReward ==
  /\ fnOut' = [op |-> "getCurrentReward", value |-> GetCurrentReward(fnIn)]
  /\ UNCHANGED <<now, store, remote, hist, last, fnIn>>

DoGetNextRewardAmount ==
  /\ fnOut' = [op |-> "getNextRewardAmount", value |-> GetNextRewardAmount(fnIn)]
  /\ UNCHANGED <<now, store, remote, hist, last, fnIn>>

DoGetTierIndex ==
  /\ fnOut' = [op |-> "getTierIndex", value |-> GetTierIndex(fnIn)]
  /\ UNCHANGED <<now, store, remote, hist, last, fnIn>>

NextReward == DoGetCurrentReward \/ DoGetNextRewardAmount \/ DoGetTierIndex

SpecReward == InitReward /\ [][NextReward]_vars

\* the reward table of the claim
TierAmount(s) ==
  CASE s >= 15 -> 125
    [] s >= 8 /\ s <= 14 -> 100
    [] s >= 4 /\ s <= 7 -> 75
    [] OTHER -> 50

\* C18: getCurrentReward(s) is 125M for s >= 15, 100M for 8..14, 75M for
\* 4..7 and 50M otherwise; REWARD_TIERS[getTierIndex(s)].amount =
\* getCurrentReward(s), getNextRewardAmount(s) = getCurrentReward(s + 1), and
\* the reward never decreases as s grows.
C18_RewardTiers ==
  /\ fnOut.op = "getCurrentReward"
     => /\ fnOut.value = TierAmount(fnIn)
        /\ \A s \in 0..fnIn : GetCurrentReward(s) <= fnOut.value
  /\ fnOut.op = "getTierIndex"
     => REWARD_TIERS[fnOut.value + 1].amount = GetCurrentReward(fnIn)
  /\ fnOut.op = "getNextRewardAmount"
     => fnOut.value = TierAmount(fnIn + 1)

\* a streak of 15 is in the last tier
C18_Witness ==
  /\ fnOut.op = "getTierIndex" /\ fnIn = 15 /\ fnOut.value = 3
  /\ REWARD_TIERS[fnOut.value + 1].amount = 125

\* C20: against a fixed log longer than one invocation can read, non-forced
\* syncEvents runs without a failed request that end with isFullySynced =
\* true leave every decodable event of the log in parsed_events, whatever
\* happened to the parsed_events entry between the runs.
C20_ResumedSyncComplete ==
  (/\ remote > MaxApiCalls * PageSize
   /\ hist.n <= 2
   /\ hist.cur.ran /\ ~hist.cur.forceRefresh /\ ~hist.cur.failed
   /\ hist.prev.ran => (~hist.prev.forceRefresh /\ ~hist.prev.failed)
   /\ hist.cur.wrote.hit /\ hist.cur.wrote.data.isFullySynced)
  => \A i \in 1..remote :
       ParseEvent(RawAt(i)).hit
       => ParseEvent(RawAt(i)).data \in Range(hist.cur.events)

(***************************************************************************)
(* Further claims about syncEvents, checked under Spec.                    *)
(***************************************************************************)
\* the run stopped at the request cap: MaxApiCalls requests, the last page full
Capped(run) ==
  run.ran /\ run.fetched = MaxApiCalls /\ run.lastPage = PageSize

\* at most MaxApiCalls requests, at offsets PageSize apart; a capped run
\* persists isFullySynced = false and lastOffset = start + MaxApiCalls * PageSize
BoundedPaging(run) ==
  (run.ran /\ run.fetched > 0)
  => /\ run.fetched <= MaxApiCalls
     /\ Len(run.requests) = run.fetched
     /\ \A k \in 2..run.fetched : run.requests[k] = run.requests[k - 1] + PageSize
     /\ Capped(run)
        => /\ run.wrote.hit
           /\ ~run.wrote.data.isFullySynced
           /\ run.wrote.data.lastOffset = run.requests[1] + MaxApiCalls * PageSize

\* C21 as stated: every syncEvents run makes at most 20 requests at offsets
\* 50 apart, a capped run persists isFullySynced = false and lastOffset =
\* start + 1000, and the next non-forced run starts at exactly that offset.
C21_CapAndResume ==
  /\ BoundedPaging(hist.cur)
  /\ (Capped(hist.prev) /\ hist.cur.ran /\ ~hist.cur.forceRefresh)
     => /\ hist.cur.fetched > 0
        /\ hist.cur.requests[1] = hist.prev.wrote.data.lastOffset

\* C21 amended: every syncEvents run makes at most 20 requests at offsets 50
\* apart, a capped run persists isFullySynced = false and lastOffset = start
\* + 1000, and the next non-forced run starts at exactly that offset if it
\* still finds the sync_state entry (unexpired, not cleared), and at offset
\* 0 if it does not.
C21_CapAndResumeWhilePersisted ==
  /\ BoundedPaging(hist.cur)
  /\ (Capped(hist.prev) /\ hist.cur.ran /\ ~hist.cur.forceRefresh)
     => /\ hist.cur.fetched > 0
        /\ hist.cur.requests[1] =
             IF hist.cur.state.hit THEN hist.prev.wrote.data.lastOffset ELSE 0

\* a capped run from offset 0, then a non-forced run that found the sync
\* state and asked for the page at offset 1000 first
C21_Witness ==
  /\ Capped(hist.prev) /\ hist.prev.requests[1] = 0
  /\ hist.prev.requests[MaxApiCalls] = (MaxApiCalls - 1) * PageSize
  /\ hist.cur.ran /\ ~hist.cur.forceRefresh /\ hist.cur.state.hit
  /\ hist.cur.requests = <<MaxApiCalls * PageSize>>

\* C22: a syncEvents run in which a page request failed, forced or not,
\* leaves in parsed_events every event the entry held before the run.
C22_FailedFetchKeepsEvents ==
  (hist.cur.ran /\ hist.cur.failed /\ hist.cur.cached.hit)
  => Range(hist.cur.cached.data) \subseteq Range(hist.cur.events)

(***************************************************************************)
(* A syncEvents call as the steps between its awaits: the part before the  *)
(* first request, one step per answered request, and the part after the    *)
(* loop.  Other callbacks of the page (invalidateAnalytics after a claim)  *)
(* run while the call is suspended on a request.  The answer to a request  *)
(* shows the log as it was when the request was sent.                      *)
(***************************************************************************)
MaxInvalidations == 2
FlightLogs == {4, 50, 52}
Callers == {"syncEvents", "getGlobalAnalytics"}
NoFlight == [pc |-> "idle"]
NoEpochs == [epoch |-> 0, logAtInval |-> 0, entryEpoch |-> 0, globalEpoch |-> 0]

\* syncEvents up to its first request
SyncStart(st, net, forceRefresh, t) ==
  LET s0 == GetSyncState(st, net, t)
      syncState == s0.value
      c0 == GetCacheEntry(s0.store, ParsedEventsKey(net), t)
  IN IF ~forceRefresh /\ ~ShouldContinueSync(syncState, t) /\ c0.value.hit
     THEN [done |-> TRUE, result |-> c0.value.data, store |-> c0.store]
     ELSE
       LET s1 == IF ~forceRefresh /\ ~ShouldContinueSync(syncState, t)
                 THEN c0.store ELSE s0.store
           c1 == IF forceRefresh THEN [value |-> Miss, store |-> s1]
                 ELSE GetCacheEntry(s1, ParsedEventsKey(net), t)
       IN [done |-> FALSE, store |-> c1.store,
           allEvents |-> IF c1.value.hit THEN c1.value.data ELSE <<>>,
           offset |-> IF forceRefresh THEN 0 ELSE syncState.lastOffset]

\* one iteration of the loop, from the answer rawEvents to the next request
SyncStep(flight, rawEvents) ==
  LET calls == flight.apiCallsMade + 1
  IN IF Len(rawEvents) = 0
     THEN [flight EXCEPT !.apiCallsMade = calls, !.isFullySynced = TRUE,
                         !.stop = TRUE]
     ELSE LET merged == flight.allEvents
                          \o NewParsedEvents(rawEvents, flight.allEvents)
          IN [flight EXCEPT !.allEvents = merged,
                            !.offset = @ + PageSize,
                            !.apiCallsMade = calls,
                            !.isFullySynced = ReachedEnd(rawEvents),
                            !.stop = ReachedEnd(rawEvents)
                                       \/ calls >= MaxApiCalls]

\* syncEvents after the loop: sort, updateSyncState, setCached
SyncFinish(st, net, flight, t) ==
  LET allEvents == SortEvents(flight.allEvents)
      s2 == UpdateSyncState(st, net, allEvents, flight.apiCallsMade,
                            flight.offset, flight.isFullySynced, t)
  IN [result |-> allEvents,
      store |-> SetCacheEntry(s2, ParsedEventsKey(net), allEvents, EVENTS_TTL, t)]

\* getGlobalAnalytics after its await of syncEvents
GlobalFinish(st, net, events, t) ==
  SetCacheEntry(st, GlobalAnalyticsKey(net), GlobalAnalyticsOf(events, t),
                GLOBAL_ANALYTICS_TTL, t)

InitInflight ==
  /\ now = StartTime
  /\ store = NoStore
  /\ remote \in FlightLogs
  /\ hist = NoEpochs
  /\ last = Idle
  /\ fnIn = NoFlight
  /\ fnOut = NoResult

\* a transaction is mined: the log gets longer
RemoteGrows ==
  /\ \E n \in FlightLogs : n > remote /\ remote' = n
  /\ last' = Idle
  /\ UNCHANGED <<now, store, hist, fnIn, fnOut>>

\* invalidateAnalytics, whatever call is suspended
InvalidateInflight(net) ==
  /\ hist.epoch < MaxInvalidations
  /\ store' = InvalidateAnalytics(store, net)
  /\ hist' = [hist EXCEPT !.epoch = @ + 1, !.logAtInval = remote]
  /\ last' = Idle
  /\ UNCHANGED <<now, remote, fnIn, fnOut>>

\* getGlobalAnalytics answered from its cache entry
GlobalCached(net) ==
  /\ fnIn = NoFlight
  /\ \E c \in {GetCacheEntry(store, GlobalAnalyticsKey(net), now)} :
       /\ c.value.hit
       /\ store' = c.store
       /\ last' = [op |-> "read", caller |-> "getGlobalAnalytics",
                   value |-> c.value.data, dataEpoch |-> hist.globalEpoch,
                   epoch |-> hist.epoch, logAtInval |-> hist.logAtInval]
  /\ UNCHANGED <<now, remote, hist, fnIn, fnOut>>

\* a call starts: it returns the cached events at once, or sends its first
\* request and is suspended
BeginSync(net, caller, forceRefresh) ==
  /\ fnIn = NoFlight
  /\ RequestsLeft(net)
  /\ caller = "getGlobalAnalytics"
     => ~forceRefresh /\ ~GetCacheEntry(store, GlobalAnalyticsKey(net), now).value.hit
  /\ \E r \in {SyncStart(store, net, forceRefresh, now)} :
       IF r.done
       THEN /\ store' = IF caller = "getGlobalAnalytics"
                        THEN GlobalFinish(r.store, net, r.result, now)
                        ELSE r.store
            /\ hist' = IF caller = "getGlobalAnalytics"
                       THEN [hist EXCEPT !.globalEpoch = hist.entryEpoch]
                       ELSE hist
            /\ last' = [op |-> "read", caller |-> caller, result |-> r.result,
                        dataEpoch |-> hist.entryEpoch, epoch |-> hist.epoch,
                        logAtInval |-> hist.logAtInval]
            /\ UNCHANGED fnIn
       ELSE /\ store' = r.store
            /\ fnIn' = [pc |-> "fetch", caller |-> caller, net |-> net,
                        allEvents |-> r.allEvents, offset |-> r.offset,
                        apiCallsMade |-> 0, isFullySynced |-> FALSE,
                        stop |-> FALSE,
                        page |-> FetchRawEvents(RemoteLog(remote), PageSize,
                                                r.offset, TRUE),
                        epoch |-> IF r.allEvents = <<>> THEN hist.epoch
                                  ELSE Min(hist.entryEpoch, hist.epoch)]
            /\ last' = Idle
            /\ UNCHANGED hist
  /\ UNCHANGED <<now, remote, fnOut>>

\* the pending request is answered: the call goes on to its next request,
\* or leaves the loop and writes its results
ResumeSync ==
  /\ fnIn.pc = "fetch"
  /\ \E f \in {SyncStep(fnIn, fnIn.page)} :
       IF f.stop
       THEN \E r \in {SyncFinish(store, f.net, f, now)} :
              /\ store' = IF f.caller = "getGlobalAnalytics"
                          THEN GlobalFinish(r.store, f.net, r.result, now)
                          ELSE r.store
              /\ hist' = IF f.caller = "getGlobalAnalytics"
                         THEN [hist EXCEPT !.entryEpoch = f.epoch,
                                           !.globalEpoch = f.epoch]
                         ELSE [hist EXCEPT !.entryEpoch = f.epoch]
              /\ last' = [op |-> "write", caller |-> f.caller,
                          result |-> r.result, dataEpoch |-> f.epoch,
                          epoch |-> hist.epoch, logAtInval |-> hist.logAtInval]
              /\ fnIn' = NoFlight
       ELSE /\ fnIn' = [f EXCEPT !.page = FetchRawEvents(RemoteLog(remote),
                                                         PageSize, f.offset, TRUE)]
            /\ last' = Idle
            /\ UNCHANGED <<store, hist>>
  /\ UNCHANGED <<now, remote, fnOut>>

NextInflight ==
  \/ RemoteGrows
  \/ \E net \in Networks : InvalidateInflight(net)
  \/ \E net \in Networks : GlobalCached(net)
  \/ \E net \in Networks, caller \in Callers, forceRefresh \in BOOLEAN :
       BeginSync(net, caller, forceRefresh)
  \/ ResumeSync

SpecInflight == InitInflight /\ [][NextInflight]_vars

\* the decodable events of the first n records of the log
DecodableEvents(n) ==
  {ParseEvent(RawAt(i)).data : i \in {j \in 1..n : ParseEvent(RawAt(j)).hit}}

\* C23: a call that was suspended on a request when invalidateAnalytics ran
\* does not afterwards write events or analytics fetched before the
\* invalidation into the cache, and every read after the invalidation is
\* answered from data fetched after it (so it shows every event the log
\* held when the invalidation ran).
C23_NoStaleWriteBack ==
  last.op \in {"read", "write"}
  => /\ last.dataEpoch = last.epoch
     /\ last.caller = "syncEvents"
        => DecodableEvents(last.logAtInval) \subseteq Range(last.result)

\* the sync state a run started from, and the number of events it newly
\* added to the list it started from
StateBefore(run) == IF run.state.hit THEN run.state.data ELSE DefaultSyncState
NewlyAdded(run) ==
  Len(run.merged)
    - (IF ~run.forceRefresh /\ run.cached.hit THEN Len(run.cached.data) ELSE 0)

\* C24: a syncEvents run adds to the persisted totalEventsParsed exactly the
\* number of events it newly added to the merged list and to
\* totalAPICallsMade exactly the number of requests it made; against a fixed
\* log totalEventsParsed never exceeds the number of distinct events of the
\* log.
C24_CountersAccumulateNewWork ==
  (hist.cur.ran /\ hist.cur.fetched > 0 /\ hist.cur.wrote.hit)
  => /\ hist.cur.wrote.data.totalAPICallsMade
          = StateBefore(hist.cur).totalAPICallsMade + hist.cur.fetched
     /\ hist.cur.wrote.data.totalEventsParsed
          = StateBefore(hist.cur).totalEventsParsed + NewlyAdded(hist.cur)
     /\ hist.cur.wrote.data.totalEventsParsed
          <= Cardinality(DecodableEvents(remote))

\* the time of the last sync as the stored sync state holds it
SyncedAt(state) ==
  IF "iso" \in DOMAIN state.lastSyncTimestamp
  THEN state.lastSyncTimestamp.iso ELSE state.lastSyncTimestamp.date

\* at time t nothing is due: the run found a sync state that is fully synced
\* and at most 5 minutes old, and an unexpired parsed_events entry
NothingDue(run, t) ==
  /\ run.state.hit
  /\ run.state.data.isFullySynced
  /\ t - SyncedAt(run.state.data) <= 300000
  /\ run.cached.hit

\* C25: shouldContinueSync is true exactly when more than 5 minutes have
\* passed since lastSyncTimestamp or isFullySynced is false: a non-forced
\* syncEvents call makes no request if and only if it is false and
\* parsed_events is cached, and then it returns the cached list and leaves
\* the sync_state and parsed_events entries as they were.
C25_QuietWhenSynced ==
  [][(hist'.n = hist.n + 1 /\ ~hist'.cur.forceRefresh)
     => /\ hist'.cur.fetched = 0 <=> NothingDue(hist'.cur, now)
        /\ NothingDue(hist'.cur, now)
           => /\ last'.result = hist'.cur.cached.data
              /\ \A net \in Networks :
                   /\ store'[SyncStateKey(net)] = store[SyncStateKey(net)]
                   /\ store'[ParsedEventsKey(net)] = store[ParsedEventsKey(net)]]_vars

\* a non-forced call right after a complete sync: no request, the list of
\* the first run returned
C25_Witness ==
  /\ hist.prev.ran /\ hist.prev.fetched > 0 /\ hist.prev.events # <<>>
  /\ hist.cur.ran /\ ~hist.cur.forceRefresh /\ hist.cur.fetched = 0
  /\ hist.cur.state.hit /\ hist.cur.state.data.isFullySynced
  /\ last.op = "syncEvents" /\ last.result = hist.prev.events

\* the run's last page was short but not empty: the log head was reached
ShortPage(run) ==
  run.ran /\ run.fetched > 0 /\ run.lastPage > 0 /\ run.lastPage < PageSize

\* C26 as stated: a run whose last page held fewer than 50 records but was
\* not empty stops without marking the sync fully synced.
C26_ShortPageNotFullySynced ==
  ShortPage(hist.cur)
  => hist.cur.wrote.hit /\ ~hist.cur.wrote.data.isFullySynced

\* C26 amended: a run whose last page held fewer than 50 records but was
\* not empty stops with that page and marks the sync fully synced; a run
\* without a failed request asks for a further page only after a full page,
\* and only a run stopped by the request cap on a full page is left not
\* fully synced.
C26_ShortPageEndsSync ==
  /\ ShortPage(hist.cur)
     => /\ hist.cur.requests[hist.cur.fetched] + PageSize = hist.cur.offset
        /\ hist.cur.wrote.hit /\ hist.cur.wrote.data.isFullySynced
  /\ (hist.cur.ran /\ ~hist.cur.failed)
     => \A k \in 1..(hist.cur.fetched - 1) :
          hist.cur.requests[k] + PageSize <= remote
  /\ (hist.cur.ran /\ hist.cur.fetched > 0 /\ hist.cur.wrote.hit
      /\ ~hist.cur.wrote.data.isFullySynced)
     => Capped(hist.cur)

\* a full page, then a page of two records that ends the run on a
\* 52-record log after two requests, fully synced
C26_Witness ==
  /\ remote = 52
  /\ hist.cur.ran /\ hist.cur.requests = <<0, PageSize>>
  /\ hist.cur.lastPage = 2
  /\ hist.cur.wrote.hit /\ hist.cur.wrote.data.isFullySynced

\* the block an event is sorted by
SortBlock(e) == IF "block" \in DOMAIN e THEN e.block ELSE 0
AtBlock(events, b) == SelectSeq(events, LAMBDA e : SortBlock(e) = b)

\* C27: every list a syncEvents run writes to parsed_events is ordered by
\* non-increasing block (no block field counts as block 0); the events of
\* one block keep the order in which they were merged, and the merged list
\* is the cached events followed by the newly decoded ones.
C27_SortedStable ==
  (hist.cur.ran /\ hist.cur.fetched > 0)
  => /\ hist.cur.events = hist.cur.result
     /\ \A i \in 1..(Len(hist.cur.events) - 1) :
          SortBlock(hist.cur.events[i]) >= SortBlock(hist.cur.events[i + 1])
     /\ Len(hist.cur.events) = Len(hist.cur.merged)
     /\ \A b \in {SortBlock(e) : e \in Range(hist.cur.merged)} :
          AtBlock(hist.cur.events, b) = AtBlock(hist.cur.merged, b)
     /\ (~hist.cur.forceRefresh /\ hist.cur.cached.hit)
        => SubSeq(hist.cur.merged, 1, Len(hist.cur.cached.data))
             = hist.cur.cached.data

\* a run whose merged list was out of order and held two events of the
\* same block, extending a cached list
C27_Witness ==
  /\ hist.cur.ran /\ hist.cur.fetched > 0
  /\ hist.cur.merged # hist.cur.events
  /\ ~hist.cur.forceRefresh /\ hist.cur.cached.hit /\ hist.cur.cached.data # <<>>
  /\ Len(hist.cur.merged) > Len(hist.cur.cached.data)
  /\ \E i, j \in 1..Len(hist.cur.events) :
       i < j /\ hist.cur.events[i] # hist.cur.events[j]
       /\ SortBlock(hist.cur.events[i]) = SortBlock(hist.cur.events[j])

(***************************************************************************)
(* getUserAnalytics when the chain is at or past the newest block of the   *)
(* log and the answers to its height requests differ within one call.      *)
(***************************************************************************)
\* the newest block of the log, and the first block at which its claimant
\* (u1) may claim again
NewestBlock == RawAt(1).value.block
NewestCooldownEnd == NewestBlock + COOLDOWN_BLOCKS
\* what the height requests of one call answer (0: the request fails)
MixedHeights ==
  {<<0, 0, 0>>, <<0, 0, NewestCooldownEnd>>,
   <<0, NewestCooldownEnd, NewestCooldownEnd>>,
   <<NewestBlock, NewestBlock, NewestBlock>>,
   <<NewestCooldownEnd, NewestCooldownEnd, NewestCooldownEnd>>}

InitMixed ==
  /\ now = StartTime
  /\ store = NoStore
  /\ remote \in {4, 52}
  /\ hist = NoWrites
  /\ last = Idle
  /\ fnIn = <<>>
  /\ fnOut = <<>>

NextMixed ==
  \/ AnalyticsTick
  \/ \E net \in Networks, outcome \in {0, NewestBlock, NewestCooldownEnd} :
       DoGetCurrentBlockHeight(net, outcome)
  \/ \E net \in Networks : DoSyncEventsRead(net, FALSE, 0)
  \/ \E net \in Networks, userAddress \in Users, heights \in MixedHeights :
       DoGetUserAnalytics(net, userAddress, 0, heights)

SpecMixed == InitMixed /\ [][NextMixed]_vars

\* C28: every UserAnalytics value that getUserAnalytics returns (computed or
\* from its cache entry) has nextClaimTime absent if and only if canClaimNow
\* is true, whatever heights its height reads saw.
C28_NextClaimTimeIffCooldown ==
  (last.op = "getUserAnalytics" /\ last.value.hit)
  => (last.value.data.nextClaimTime = Undefined <=> last.value.data.canClaimNow)

(***************************************************************************)
(* claimTokens against the token-faucet contract.  The contract pays the   *)
(* tier reward of the streak the claim reaches: a claim made less than     *)
(* STREAK_WINDOW blocks after the previous one continues the streak, a     *)
(* later one starts again at 1; it refuses a claim made less than the      *)
(* cooldown after the previous one.  Every claim emits one claim event.    *)
(***************************************************************************)
STREAK_WINDOW == 34560
MaxHistory == 4
ClaimGaps ==
  {COOLDOWN_BLOCKS, MAX_STREAK_GAP, MAX_STREAK_GAP + 1, STREAK_WINDOW - 1,
   STREAK_WINDOW}
FirstClaimBlock == COOLDOWN_BLOCKS
NoClaimYet == [block |-> 0, streak |-> 0, total |-> 0, amount |-> 0]

\* get-reward-for-streak
FaucetReward(streak) ==
  IF streak >= 15 THEN 125
  ELSE IF streak >= 8 THEN 100
  ELSE IF streak >= 4 THEN 75
  ELSE 50

\* claim-tokens at block height by a user whose last claim is prev
FaucetClaim(prev, height) ==
  LET streak == IF prev.total = 0 THEN 1
                ELSE IF height - prev.block < STREAK_WINDOW THEN prev.streak + 1
                ELSE 1
  IN IF prev.total > 0 /\ height - prev.block < COOLDOWN_BLOCKS
     THEN [ok |-> FALSE, claim |-> prev]
     ELSE [ok |-> TRUE,
           claim |-> [block |-> height, streak |-> streak,
                      total |-> prev.total + 1, amount |-> FaucetReward(streak)]]

\* the claims of a user who claimed first at FirstClaimBlock and then at the
\* given gaps
RECURSIVE FaucetHistory(_)
FaucetHistory(gaps) ==
  IF gaps = <<>> THEN <<FaucetClaim(NoClaimYet, FirstClaimBlock).claim>>
  ELSE LET before == FaucetHistory(SubSeq(gaps, 1, Len(gaps) - 1))
           prev == before[Len(before)]
       IN Append(before, FaucetClaim(prev, prev.block + gaps[Len(gaps)]).claim)

\* the events the contract emitted for these claims, as the API serves them
ClaimLog(user, claims) ==
  [i \in 1..Len(claims) |->
     ClaimRaw(user, claims[i].amount, claims[i].streak, claims[i].total,
              claims[i].block, <<"claim", i>>)]

\* a user with no claim, or with a first claim and up to MaxHistory - 1 more;
\* wait is the number of blocks since the last claim
InitClaim ==
  /\ now = StartTime
  /\ store = NoStore
  /\ remote = 0
  /\ hist = NoRuns
  /\ last = Idle
  /\ fnIn \in [claimed : BOOLEAN,
               gaps : UNION {[1..n -> ClaimGaps] : n \in 0..(MaxHistory - 1)},
               wait : ClaimGaps]
  /\ fnIn.claimed \/ fnIn.gaps = <<>>
  /\ fnOut = NoResult

DoClaimAgainstFaucet ==
  /\ fnOut = NoResult
  /\ \E claims \in {IF fnIn.claimed THEN FaucetHistory(fnIn.gaps) ELSE <<>>} :
     \E prev \in {IF claims = <<>> THEN NoClaimYet ELSE claims[Len(claims)]} :
     \E height \in {prev.block + fnIn.wait} :
     \E r \in {ClaimTokens(NoStore, "testnet", "u1", TRUE, ClaimLog("u1", claims),
                           0, <<height, height, height>>, now)} :
       fnOut' = [op |-> "claimTokens", success |-> r.result.success,
                 postCondition |-> r.reward,
                 faucet |-> FaucetClaim(prev, height),
                 claims |-> Len(claims)]
  /\ UNCHANGED <<now, store, remote, hist, last, fnIn>>

NextClaim == DoClaimAgainstFaucet

SpecClaim == InitClaim /\ [][NextClaim]_vars

\* C29: for a user who is eligible to claim, the amount claimTokens puts
\* into its post-condition equals the amount the faucet contract transfers
\* for that claim, for every claim history.
C29_PostConditionMatchesFaucet ==
  (fnOut.op = "claimTokens" /\ fnOut.success /\ fnOut.faucet.ok)
  => fnOut.postCondition = fnOut.faucet.claim.amount

(***************************************************************************)
(* calculateDailyRate: the historical rule.                                *)
(***************************************************************************)
\* newest block - oldest block of a non-empty claim list
BlockSpan(claims) ==
  SetMax({c.block : c \in Range(claims)}) - SetMin({c.block : c \in Range(claims)})

\* C30: whenever calculateDailyRate selects method historical for two or
\* more claims, the span between the oldest and the newest claim exceeds
\* 7 x 17280 blocks, the confidence is medium and periodDays is at least 7;
\* (historical, low) is returned only for exactly one claim.
C30_HistoricalSpansOverSevenDays ==
  (fnOut.op = "calculateDailyRate" /\ fnOut.result.method = "historical")
  => /\ Len(fnIn) >= 2
        => /\ BlockSpan(fnIn) > 7 * 17280
           /\ fnOut.result.confidence = "medium"
           /\ fnOut.result.periodDays >= 7
     /\ fnOut.result.confidence = "low"
        => /\ Len(fnIn) = 1
           /\ fnOut.result.periodDays = 1
           /\ fnOut.result.dailyRate = Quotient(fnIn[1].amount, 1)

\* the newest claim and one claim a block past the edge of its 7-day
\* window: historical over 120961 blocks, medium, 7 days
C30_Witness ==
  /\ fnOut.op = "calculateDailyRate"
  /\ Len(fnIn) = 2
  /\ fnIn[1].block = RateNewest
  /\ fnIn[2].block = RateNewest - 7 * BLOCKS_PER_DAY - 1
  /\ fnOut.result.method = "historical"
  /\ fnOut.result.confidence = "medium"
  /\ fnOut.result.periodDays = 7

(***************************************************************************)
(* token-batch-transfer: send-many.  bal maps each principal to its token  *)
(* balance.  The token contract's transfer answers (ok true) or (err u1)   *)
(* not enough balance, (err u2) sender is recipient, (err u3) zero amount, *)
(* (err u4) sender is not tx-sender.  A public function that returns an    *)
(* err response commits none of the changes made during the call.          *)
(***************************************************************************)
Ok(v) == [ok |-> TRUE, value |-> v]
Err(code) == [ok |-> FALSE, value |-> code]

\* (contract-call? .token transfer amount sender to memo): [result, bal]
Transfer(bal, amount, sender, to, memo, txSender) ==
  IF sender # txSender THEN [result |-> Err(4), bal |-> bal]
  ELSE IF amount = 0 THEN [result |-> Err(3), bal |-> bal]
  ELSE IF sender = to THEN [result |-> Err(2), bal |-> bal]
  ELSE IF bal[sender] < amount THEN [result |-> Err(1), bal |-> bal]
  ELSE [result |-> Ok(TRUE),
        bal |-> [bal EXCEPT ![sender] = @ - amount, ![to] = @ + amount]]

\* (let ((transferOk (try! ...))) (ok transferOk))
SendTokenWithMemo(bal, amount, to, memo, txSender) ==
  LET t == Transfer(bal, amount, txSender, to, memo, txSender)
  IN IF t.result.ok THEN [result |-> Ok(t.result.value), bal |-> t.bal]
     ELSE [result |-> Err(t.result.value), bal |-> t.bal]

SendToken(bal, recipient, txSender) ==
  SendTokenWithMemo(bal, recipient.amount, recipient.to, recipient.memo, txSender)

\* (map send-token recipients): every element is evaluated, in list order
RECURSIVE MapSendToken(_, _, _)
MapSendToken(bal, recipients, txSender) ==
  IF recipients = <<>> THEN [results |-> <<>>, bal |-> bal]
  ELSE LET r == SendToken(bal, Head(recipients), txSender)
           rest == MapSendToken(r.bal, Tail(recipients), txSender)
       IN [results |-> <<r.result>> \o rest.results, bal |-> rest.bal]

\* (match prior ok-value result err-value (err err-value))
CheckErr_KeepLast(result, prior) == result
CheckErr(result, prior) == IF prior.ok THEN result ELSE Err(prior.value)

\* (fold check-err results initial)
RECURSIVE FoldCheckErr(_, _)
FoldCheckErr(results, prior) ==
  IF results = <<>> THEN prior
  ELSE FoldCheckErr(Tail(results), CheckErr(Head(results), prior))

\* [response, results: the responses of the single transfers, bal]
SendMany(bal, recipients, txSender) ==
  LET sent == MapSendToken(bal, recipients, txSender)
      response == FoldCheckErr(sent.results, Ok(TRUE))
  IN [response |-> response, results |-> sent.results,
      bal |-> IF response.ok THEN sent.bal ELSE bal]

MaxBatch == 3
MaxAmount == 2
Principals == {"deployer", "wallet_1", "wallet_2"}
BatchRecipients ==
  [to : Principals, amount : 0..MaxAmount, memo : {"none"}]
Batches == UNION {[1..n -> BatchRecipients] : n \in 0..MaxBatch}
InitialBalances == [p \in Principals |-> IF p = "deployer" THEN 3 ELSE 0]

InitBatch ==
  /\ now = StartTime
  /\ store = NoStore
  /\ remote = 0
  /\ hist = NoRuns
  /\ last = Idle
  /\ fnIn \in [bal : {InitialBalances}, recipients : Batches,
               txSender : {"deployer", "wallet_1"}]
  /\ fnOut = NoResult

DoSendMany ==
  /\ fnOut = NoResult
  /\ fnOut' = [op |-> "send-many"] @@ SendMany(fnIn.bal, fnIn.recipients, fnIn.txSender)
  /\ UNCHANGED <<now, store, remote, hist, last, fnIn>>

NextBatch == DoSendMany

SpecBatch == InitBatch /\ [][NextBatch]_vars

\* the indices of the transfers that failed
Failing(results) == {i \in 1..Len(results) : ~results[i].ok}

\* C19: send-many returns (ok true) if and only if every single transfer
\* succeeds (the empty list included); otherwise it returns the error of the
\* first failing transfer in list order, and no balance differs from its
\* value before the call.
C19_SendManyAtomic ==
  fnOut.op = "send-many"
  => /\ Len(fnOut.results) = Len(fnIn.recipients)
     /\ fnOut.response.ok <=> Failing(fnOut.results) = {}
     /\ fnOut.response.ok => fnOut.response.value = TRUE
     /\ Failing(fnOut.results) # {}
        => /\ fnOut.response =
                fnOut.results[CHOOSE i \in Failing(fnOut.results) :
                                \A j \in Failing(fnOut.results) : i <= j]
           /\ fnOut.bal = fnIn.bal
     /\ Failing(fnOut.results) = {}
        => \A p \in Principals :
             fnOut.bal[p] = fnIn.bal[p]
               + SumAmounts(SelectSeq(fnIn.recipients, LAMBDA r : r.to = p))
               - (IF p = fnIn.txSender THEN SumAmounts(fnIn.recipients) ELSE 0)

\* a valid transfer, then a transfer to self, then a transfer that went
\* through: the call answers (err u2) and every balance is as before
C19_Witness ==
  /\ fnOut.op = "send-many"
  /\ Len(fnOut.results) = 3
  /\ fnOut.results[1].ok /\ ~fnOut.results[2].ok /\ fnOut.results[3].ok
  /\ ~fnOut.response.ok /\ fnOut.response.value = 2
  /\ fnOut.bal = fnIn.bal

====
